---- MODULE Spec2Model ----
(***************************************************************************)
(* gollmscribe: the watch-mode pipeline.                                   *)
(*   pkg/watcher  tracker (lock table), processor (ProcessFile), history   *)
(*                (BoltDB store), watcher (Start/Stop, watch loop, worker  *)
(*                pool, cleanup routine)                                   *)
(*   pkg/transcriber  transcribeChunks (semaphore-bounded chunk fan-out)   *)
(*                                                                         *)
(* Specifications:                                                         *)
(*   SpecTracker  callers of processingTracker, with pt.mu modelled        *)
(*   Spec         the watcher: runWatch, watch loop, cleanup routine,      *)
(*                workers running ProcessFile, the file system around it   *)
(*   SpecChunks   one transcribeChunks call, any chunk count and Workers   *)
(*   SpecPool     two workers on multi-chunk files, through to Stop        *)
(*   SpecCancel   the context cancelled and Stop not called, under weak    *)
(*                fairness of the goroutines' steps                        *)
(***************************************************************************)
EXTENDS Integers, Sequences, FiniteSets, TLC

\* ------------------------------------------------------------------ bounds

\* The age of a lock entry (now.Sub(startTime), in units of one
\* ProcessingTimeout period) is counted up to MaxAge.
MaxAge == 2
\* len(chunks) of a transcribeChunks call is at most MaxChunks.
MaxChunks == 5
\* Ticks of the watch loop's rescan ticker.
MaxScans == 1
\* File system events (a file dropped into the directory, a file written).
MaxFsEvents == 1
\* Files deleted from outside while the watcher runs.
MaxDeletes == 1
\* Failures caused by the environment (disk, codec, provider).
MaxFailures == 1
\* Chunk transcriptions of one transcribeChunks call that fail.
MaxChunkFailures == 2
\* RecordFailed calls in a row for one fingerprint.
MaxFailCalls == 3
\* The longest duration (audio, chunk, overlap) passed to CalculateChunks, in
\* units of time.Duration (nanoseconds).
MaxDur == 7
\* len(chunks) of a MergeChunks call is at most MaxMergeLen.
MaxMergeLen == 3

\* ------------------------------------------------------- program constants

\* WatchConfig.ProcessingTimeout, in clock units.
ProcessingTimeout == 1
\* transcribeChunks: `if workers <= 0 { workers = 3 }`
DefaultChunkWorkers == 3
\* NewFileWatcher: make(chan string, config.MaxWorkers*2)
QueueFactor == 2
\* NewChunkMerger: overlapThreshold = 30 * time.Second; segment times are in
\* units of ten seconds.
OverlapThreshold == 3

\* ------------------------------------------------------------ the universe

Paths == {"a.mp3", "b.mp3"}
\* filepath.Walk visits a directory's entries in lexical order
WalkOrder == <<"a.mp3", "b.mp3">>
Callers == {"c1", "c2"}
\* the worker goroutines Start can spawn; config.MaxWorkers is 1 or 2
WorkerIds == {1, 2}
MaxWorkersChoices == {1, 2}
\* req.Options.Workers as configured
OptWorkersChoices == {-1, 0, 1, 2}
ChunkIds == 1..MaxChunks
NoLock == -1
NoMarker == -100
NoCaller == "free"
NoPath == "none"
NoHash == <<"none", 0>>

\* The files: content, of which getFileHash reads the first MiB, and size.
\* The two files are copies of one recording.
FileOf(p) == [head |-> "x", tail |-> "t", size |-> 1]

\* processor getFileHash: sha256(first 1 MiB) followed by ":<size>"
getFileHash(f) == <<f.head, f.size>>

Fingerprints == {getFileHash(FileOf(p)) : p \in Paths}

\* The keys of the history buckets: fingerprints of any file
HistKeys == {getFileHash([head |-> h, tail |-> "t", size |-> n]) : h \in {"x", "y"}, n \in 1..2}

\* WatchConfig.MoveToDir (default: not set)
MoveToDir == ""

VARIABLES
    processing,   \* processingTracker.processing: path -> age of the entry,
                  \* now.Sub(startTime) (NoLock: absent)
    \* --- callers of the tracker (SpecTracker)
    tmuW,         \* pt.mu: the caller holding it for writing, or NoCaller
    tmuR,         \* pt.mu: the callers holding it for reading
    tcall,        \* per caller: the call in progress
    holders,      \* per path: callers whose TryLock returned true since the last Unlock
    \* --- configuration and the environment's budgets
    maxWorkers,   \* config.MaxWorkers
    optWorkers,   \* req.Options.Workers
    numChunks,    \* per file: len(chunks) that ChunkAudio yields for its duration
    failBudget,   \* failures the environment may still cause
    scanBudget,   \* rescan ticks left
    eventBudget,  \* file system events left
    deleteBudget, \* outside deletions left
    \* --- transcribeChunks, per pipeline (the worker running it)
    chN,          \* len(chunks); 0: no transcribeChunks call in progress
    chG,          \* per chunk goroutine: where it is
    chSem,        \* len(semaphore): tokens taken
    chFirstErr,   \* firstErr: 0 for nil, else the chunk that set it
    chCompleted,  \* completed
    chResults,    \* the indices i with results[i] set
    \* --- the file system
    exists,       \* the media files present in the watched directory
    markers,      \* path -> age of path+".processing" at Start, time.Since(ModTime),
                  \* 0 for a marker written in this run (NoMarker: absent)
    \* --- processingHistory (BoltDB)
    histProcessed, \* keys of bucket "processed"
    histFailed,   \* bucket "failed": fingerprint -> RetryCount (-1: absent)
    histOpen,     \* the db is open
    histLate,     \* a call reached the store after Close
    \* --- fileWatcher
    stopCh,       \* stopCh is closed; Stop closes the fsnotify watcher and workerQueue with it
    ctxDone,      \* the context passed to Start is cancelled
    workerQueue,  \* the buffered channel: entries [path, scan]; scan marks the startup scan's sends
    wg,           \* fw.wg counter
    initialMap,   \* initialProcessingMap keys
    initialWG,    \* initialProcessing counter
    events,       \* fsnotify events not yet received
    recent,       \* recentEvents: the paths with an entry younger than 5 s
    mainPc,       \* runWatch: where the main goroutine is
    scanRem,      \* processExistingFiles: the walk's remaining entries
    watchPc,      \* watchLoop: where it is
    watchPath,    \* handleFileEvent: event.Name
    watchRem,     \* periodicScan: the walk's remaining entries
    cleanupPc,    \* cleanupRoutine: where it is
    crashed,      \* the process died of a panic: no goroutine takes a step any more
    \* --- workers
    wpc,          \* per worker: where it is
    wpath,        \* per worker: the path dequeued
    wscan,        \* per worker: the entry dequeued was sent by the startup scan
    whash,        \* per worker: ProcessFile's hash
    wterm,        \* per worker: terminal events emitted by the current ProcessFile
    wout,         \* per worker: how the current ProcessFile ends ("none": still running)
    wown,         \* per worker: which of "lock", "marker" now in place its ProcessFile put there
    ucall,        \* the last direct call of a library function: its name, argument,
                  \* the state it found and what it returned
    ufails,       \* fingerprint -> RecordFailed calls since its last RecordProcessed
    tmp,          \* the transcriber's temp directory: the clock, its files and the
                  \* Transcribe invocations writing to it
    tc,           \* one transcribeChunks call with a progress callback: its goroutines,
                  \* mu, completed, firstErr, results and the callback invocations
    \* --- what the program tells the outside
    emitted,      \* progress events and log lines of the last step
    doneCount,    \* per fingerprint: 'completed' events so far (counted up to 2)
    stats         \* fileWatcher.stats: ProcessedCount, FailedCount, SkippedCount

trackerVars == <<processing>>
harnessVars == <<tmuW, tmuR, tcall, holders>>
\* the state of the calls studied on their own
unitVars == <<tmp, tc>>
cfgVars == <<maxWorkers, optWorkers, numChunks, ucall, ufails, unitVars>>
budgetVars == <<failBudget, scanBudget, eventBudget, deleteBudget>>
chunkVars == <<chN, chG, chSem, chFirstErr, chCompleted, chResults>>
fsVars == <<exists, markers>>
histVars == <<histProcessed, histFailed, histOpen, histLate>>
chanVars == <<stopCh, ctxDone, crashed>>
queueVars == <<workerQueue, wg>>
initialVars == <<initialMap, initialWG>>
eventVars == <<events, recent>>
mainVars == <<mainPc, scanRem>>
watchVars == <<watchPc, watchPath, watchRem>>
workerVars == <<wpc, wpath, wscan, whash, wterm, wout, wown>>
outVars == <<emitted, doneCount, stats>>
vars == <<processing, tmuW, tmuR, tcall, holders,
          maxWorkers, optWorkers, numChunks, failBudget, scanBudget, eventBudget, deleteBudget,
          chN, chG, chSem, chFirstErr, chCompleted, chResults,
          exists, markers, histProcessed, histFailed, histOpen, histLate,
          stopCh, ctxDone, workerQueue, wg, initialMap, initialWG, events, recent,
          mainPc, scanRem, watchPc, watchPath, watchRem, cleanupPc, crashed,
          wpc, wpath, wscan, whash, wterm, wout, wown, ucall, ufails, tmp, tc, emitted,
          doneCount, stats>>

\* everything but the tracker and its callers
notTracker == <<cfgVars, budgetVars, chunkVars, fsVars, histVars, chanVars, queueVars,
                initialVars, eventVars, mainVars, watchVars, cleanupPc, workerVars, doneCount,
                stats>>

\* ------------------------------------------------- the state at construction

IdleCall == [op |-> "none", path |-> "a.mp3", pc |-> "idle", res |-> FALSE, held |-> FALSE]

\* NewProcessingTracker: an empty map
InitTrackerTable == processing = [p \in Paths |-> NoLock]

InitHarness ==
    /\ tmuW = NoCaller
    /\ tmuR = {}
    /\ tcall = [c \in Callers |-> IdleCall]
    /\ holders = [p \in Paths |-> {}]

\* no transcribeChunks call in progress
InitChunks ==
    /\ chN = [w \in WorkerIds |-> 0]
    /\ chG = [w \in WorkerIds |-> [i \in ChunkIds |-> "none"]]
    /\ chSem = [w \in WorkerIds |-> 0]
    /\ chFirstErr = [w \in WorkerIds |-> 0]
    /\ chCompleted = [w \in WorkerIds |-> 0]
    /\ chResults = [w \in WorkerIds |-> {}]

\* NewProcessingHistory: the db open, both buckets created
InitHistory ==
    /\ histProcessed = {}
    /\ histFailed = [f \in Fingerprints |-> -1]
    /\ histOpen = TRUE
    /\ histLate = FALSE

\* NewFileWatcher: channels made, nothing started
InitWatcher ==
    /\ stopCh = FALSE
    /\ ctxDone = FALSE
    /\ workerQueue = <<>>
    /\ wg = 0
    /\ initialMap = {}
    /\ initialWG = 0
    /\ events = {}
    /\ recent = {}
    /\ mainPc = "init"
    /\ scanRem = <<>>
    /\ watchPc = "none"
    /\ watchPath = NoPath
    /\ watchRem = <<>>
    /\ cleanupPc = "none"
    /\ crashed = FALSE

InitWorkers ==
    /\ wpc = [w \in WorkerIds |-> "none"]
    /\ wpath = [w \in WorkerIds |-> NoPath]
    /\ wscan = [w \in WorkerIds |-> FALSE]
    /\ whash = [w \in WorkerIds |-> NoHash]
    /\ wterm = [w \in WorkerIds |-> 0]
    /\ wout = [w \in WorkerIds |-> "none"]
    /\ wown = [w \in WorkerIds |-> {}]

\* the counters of WatchStats are followed up to this value
MaxCount == 3

\* n++ of a counter
CountUp(n) == IF n < MaxCount THEN n + 1 ELSE n

\* NewFileWatcher: the counters of a fresh WatchStats
NewWatchStats == [ProcessedCount |-> 0, FailedCount |-> 0, SkippedCount |-> 0]

\* handleProgressEvent without its 'skipped' case
handleProgressEvent_NoSkipped(st, type) ==
    CASE type = "completed" -> [st EXCEPT !.ProcessedCount = CountUp(@)]
      [] type = "failed" -> [st EXCEPT !.FailedCount = CountUp(@)]
      [] OTHER -> st

\* handleProgressEvent: under statsLock, the counter of the event's type goes up by one
\* (the event is then forwarded to the external callback)
handleProgressEvent(st, type) ==
    CASE type = "completed" -> [st EXCEPT !.ProcessedCount = CountUp(@)]
      [] type = "failed" -> [st EXCEPT !.FailedCount = CountUp(@)]
      [] type = "skipped" -> [st EXCEPT !.SkippedCount = CountUp(@)]
      [] OTHER -> st

InitOut ==
    /\ emitted = <<>>
    /\ doneCount = [f \in Fingerprints |-> 0]
    /\ stats = NewWatchStats

\* no direct call of a library function made
NoCall == [op |-> "none", arg |-> <<>>, pre |-> <<>>, ret |-> <<>>]

\* an empty temp directory, no Transcribe begun
NoTemp == [now |-> 0, files |-> <<>>, inv |-> <<>>]

\* no transcribeChunks call studied
NoChunksCall == [n |-> 0]

InitNoCall ==
    /\ ucall = NoCall
    /\ ufails = [f \in HistKeys |-> 0]
    /\ tmp = NoTemp
    /\ tc = NoChunksCall

InitNoBudget ==
    /\ failBudget = 0
    /\ scanBudget = 0
    /\ eventBudget = 0
    /\ deleteBudget = 0

\* ------------------------------------------------------- processingTracker

\* tracker.go TryLock: the test `_, exists := pt.processing[filepath]`
Exists(tbl, p) == tbl[p] # NoLock

\* tracker.go TryLock: pt.processing[filepath] = time.Now()
Insert(tbl, p) == [tbl EXCEPT ![p] = 0]

\* tracker.go Unlock: delete(pt.processing, filepath)
Delete(tbl, p) == [tbl EXCEPT ![p] = NoLock]

\* tracker.go TryLock as one atomic call (the body under pt.mu)
TryLockResult(tbl, p) == ~Exists(tbl, p)
TryLockTable(tbl, p) == IF Exists(tbl, p) THEN tbl ELSE Insert(tbl, p)

\* tracker.go IsLocked
IsLocked(tbl, p) == Exists(tbl, p)

\* A sweep that also takes the entries exactly as old as the timeout.
StaleSet_Inclusive(tbl, timeout) == {p \in Paths : Exists(tbl, p) /\ tbl[p] >= timeout}

\* tracker.go CleanupStale: entries with now.Sub(startTime) > timeout are deleted
StaleSet(tbl, timeout) == {p \in Paths : Exists(tbl, p) /\ tbl[p] > timeout}

\* CleanupStale's result: `cleaned++` for every entry deleted
CleanupStaleCount(tbl, timeout) == Cardinality(StaleSet(tbl, timeout))
CleanupStale(tbl, timeout) ==
    [p \in Paths |-> IF p \in StaleSet(tbl, timeout) THEN NoLock ELSE tbl[p]]

\* ------------------------------------------- SpecTracker: pt.mu and callers

\* A caller without the mutual exclusion of pt.mu.
MuFreeFor_NoMutex(c, write) == TRUE

\* sync.RWMutex: Lock needs no writer and no reader, RLock needs no writer
MuFreeFor(c, write) ==
    IF write THEN tmuW = NoCaller /\ tmuR = {}
    ELSE tmuW = NoCaller

IsWrite(op) == op \in {"TryLock", "Unlock"}

\* A goroutine calls TryLock, Unlock or IsLocked on a path.
TrCall(c, op, p) ==
    /\ tcall[c].pc = "idle"
    /\ tcall' = [tcall EXCEPT ![c] = [IdleCall EXCEPT !.op = op, !.path = p, !.pc = "lock"]]
    /\ UNCHANGED <<trackerVars, tmuW, tmuR, holders, notTracker, emitted>>

\* pt.mu.Lock() / pt.mu.RLock()
TrLock(c) ==
    /\ tcall[c].pc = "lock"
    /\ MuFreeFor(c, IsWrite(tcall[c].op))
    /\ IF IsWrite(tcall[c].op)
       THEN tmuW' = c /\ UNCHANGED tmuR
       ELSE tmuR' = tmuR \cup {c} /\ UNCHANGED tmuW
    /\ tcall' = [tcall EXCEPT ![c].pc = "body"]
    /\ UNCHANGED <<trackerVars, holders, notTracker, emitted>>

\* TryLock: `if _, exists := pt.processing[filepath]; exists { return false }`
TrTryLockCheck(c) ==
    /\ tcall[c].pc = "body" /\ tcall[c].op = "TryLock"
    /\ LET p == tcall[c].path IN
       tcall' = [tcall EXCEPT ![c].held = holders[p] # {},
                              ![c].res = FALSE,
                              ![c].pc = IF Exists(processing, p) THEN "unlock" ELSE "insert"]
    /\ UNCHANGED <<trackerVars, tmuW, tmuR, holders, notTracker, emitted>>

\* TryLock: `pt.processing[filepath] = time.Now(); return true`
TrTryLockInsert(c) ==
    /\ tcall[c].pc = "insert"
    /\ LET p == tcall[c].path IN
       /\ processing' = Insert(processing, p)
       /\ holders' = [holders EXCEPT ![p] = @ \cup {c}]
    /\ tcall' = [tcall EXCEPT ![c].res = TRUE, ![c].pc = "unlock"]
    /\ UNCHANGED <<tmuW, tmuR, notTracker, emitted>>

\* Unlock: delete(pt.processing, filepath)
TrUnlockBody(c) ==
    /\ tcall[c].pc = "body" /\ tcall[c].op = "Unlock"
    /\ LET p == tcall[c].path IN
       /\ processing' = Delete(processing, p)
       /\ holders' = [holders EXCEPT ![p] = {}]
    /\ tcall' = [tcall EXCEPT ![c].pc = "unlock"]
    /\ UNCHANGED <<tmuW, tmuR, notTracker, emitted>>

\* IsLocked: `_, exists := pt.processing[filepath]; return exists`
TrIsLockedBody(c) ==
    /\ tcall[c].pc = "body" /\ tcall[c].op = "IsLocked"
    /\ LET p == tcall[c].path IN
       tcall' = [tcall EXCEPT ![c].held = holders[p] # {},
                              ![c].res = IsLocked(processing, p),
                              ![c].pc = "unlock"]
    /\ UNCHANGED <<trackerVars, tmuW, tmuR, holders, notTracker, emitted>>

\* the deferred pt.mu.Unlock() / pt.mu.RUnlock(); the call returns
TrReturn(c) ==
    /\ tcall[c].pc = "unlock"
    /\ IF IsWrite(tcall[c].op)
       THEN tmuW' = (IF tmuW = c THEN NoCaller ELSE tmuW) /\ UNCHANGED tmuR
       ELSE tmuR' = tmuR \ {c} /\ UNCHANGED tmuW
    /\ tcall' = [tcall EXCEPT ![c].pc = "done"]
    /\ UNCHANGED <<trackerVars, holders, notTracker, emitted>>

\* the caller goes on to its next call
TrNext(c) ==
    /\ tcall[c].pc = "done"
    /\ tcall' = [tcall EXCEPT ![c] = IdleCall]
    /\ UNCHANGED <<trackerVars, tmuW, tmuR, holders, notTracker, emitted>>

\* time passes: every lock entry grows older
Tick ==
    /\ ~crashed
    /\ \E p \in Paths : Exists(processing, p) /\ processing[p] < MaxAge
    /\ processing' = [p \in Paths |->
                        IF Exists(processing, p) /\ processing[p] < MaxAge
                        THEN processing[p] + 1 ELSE processing[p]]
    /\ emitted' = <<>>
    /\ UNCHANGED <<harnessVars, notTracker>>

InitTracker ==
    /\ InitTrackerTable /\ InitHarness
    /\ maxWorkers = 1 /\ optWorkers = 0 /\ InitNoBudget
    /\ numChunks = [p \in Paths |-> 1]
    /\ InitChunks /\ InitHistory /\ InitWatcher /\ InitWorkers /\ InitOut /\ InitNoCall
    /\ exists = {} /\ markers = [p \in Paths |-> NoMarker]

NextTracker ==
    \/ \E c \in Callers, op \in {"TryLock", "Unlock", "IsLocked"}, p \in Paths : TrCall(c, op, p)
    \/ \E c \in Callers : TrLock(c)
    \/ \E c \in Callers : TrTryLockCheck(c)
    \/ \E c \in Callers : TrTryLockInsert(c)
    \/ \E c \in Callers : TrUnlockBody(c)
    \/ \E c \in Callers : TrIsLockedBody(c)
    \/ \E c \in Callers : TrReturn(c)
    \/ \E c \in Callers : TrNext(c)
    \/ Tick

SpecTracker == InitTracker /\ [][NextTracker]_vars

\* ------------------------------------------------------ processingHistory

\* history.go IsProcessed: bucket.Get(fileHash) != nil
IsProcessed(hp, fp) == fp \in hp

\* history.go RecordProcessed: Put into "processed", Delete from "failed"
RecordProcessedP(hp, fp) == hp \cup {fp}
\* A RecordProcessed that leaves the failed bucket alone.
RecordProcessedF_NoDelete(hf, fp) == hf

RecordProcessedF(hf, fp) == [hf EXCEPT ![fp] = -1]

\* history.go RecordFailed: RetryCount = existing.RetryCount + 1 if the key
\* exists, else the record's own RetryCount (0 as ProcessFile builds it)
\* FailedInfo.RetryCount of the record ProcessFile passes to RecordFailed: the
\* struct literal does not set it
InfoRetryCount == 0

\* A RecordFailed that stores the record as passed in.
RecordFailedF_NoIncrement(hf, fp) == [hf EXCEPT ![fp] = InfoRetryCount]

RecordFailedF(hf, fp) == [hf EXCEPT ![fp] = IF @ # -1 THEN @ + 1 ELSE InfoRetryCount]

\* ----------------------------------------------------------- fileProcessor

Ev(t, p) == [type |-> t, path |-> p]


\* config.Patterns ("*.mp3", ...) against filepath.Base
PatternExts == {"mp3", "wav", "mp4", "m4a"}
ExtOf(p) == "mp3"

\* processor isFileStable: two os.Stat calls StabilityWait apart agree (the
\* files of the model are not rewritten once they exist)
isFileStable(p) == p \in exists

\* processor CanProcess
CanProcess(p) ==
    /\ p \in exists
    /\ ExtOf(p) \in PatternExts
    /\ isFileStable(p)
    /\ markers[p] = NoMarker

\* a failure caused from outside: one of the budget
Outcome(ok) ==
    IF ok THEN UNCHANGED failBudget
    ELSE failBudget > 0 /\ failBudget' = failBudget - 1

\* processWorker, after ProcessFile returned: the entry of initialProcessingMap
InitialDone(p) ==
    IF p \in initialMap
    THEN initialMap' = initialMap \ {p} /\ initialWG' = initialWG - 1
    ELSE UNCHANGED <<initialMap, initialWG>>

\* what no worker step touches
notWorker == <<harnessVars, cfgVars, scanBudget, eventBudget, deleteBudget,
               chanVars, eventVars, mainVars, watchVars, cleanupPc>>

\* The lock entries / marker files of the paths ps are gone: no invocation
\* working on one of them has its own any more.
Disown(own, ps, what) ==
    [v \in WorkerIds |-> IF wpath[v] \in ps THEN own[v] \ {what} ELSE own[v]]

\* Idle workers are interchangeable: of the workers blocked in the receive the
\* one with the lowest id takes the step.
IdleTurn(w) ==
    /\ wpc[w] = "idle"
    /\ \A v \in WorkerIds : v < w => wpc[v] # "idle"

\* processWorker: `for filepath := range fw.workerQueue`, the select on
\* ctx.Done / stopCh, and the start of ProcessFile (the 'processing' event)
PW_Receive(w) ==
    /\ ~crashed
    /\ IdleTurn(w)
    /\ workerQueue # <<>>
    /\ workerQueue' = Tail(workerQueue)
    /\ IF ctxDone \/ stopCh
       THEN /\ wpc' = [wpc EXCEPT ![w] = "exit"]
            /\ wg' = wg - 1
            /\ emitted' = <<>>
            /\ UNCHANGED <<wpath, wscan, wterm, wout>>
       ELSE /\ wpc' = [wpc EXCEPT ![w] = "enter"]
            /\ wpath' = [wpath EXCEPT ![w] = Head(workerQueue).path]
            /\ wscan' = [wscan EXCEPT ![w] = Head(workerQueue).scan]
            /\ wterm' = [wterm EXCEPT ![w] = 0]
            /\ wout' = [wout EXCEPT ![w] = "none"]
            /\ emitted' = <<Ev("processing", Head(workerQueue).path)>>
            /\ UNCHANGED wg
    /\ UNCHANGED <<notWorker, processing, failBudget, chunkVars, fsVars, histVars,
                   initialVars, whash, wown, doneCount,
                   stats>>

\* processWorker: the range over the closed, drained channel ends
PW_Closed(w) ==
    /\ ~crashed
    /\ IdleTurn(w)
    /\ workerQueue = <<>>
    /\ stopCh
    /\ wpc' = [wpc EXCEPT ![w] = "exit"]
    /\ wg' = wg - 1
    /\ emitted' = <<>>
    /\ UNCHANGED <<notWorker, processing, failBudget, chunkVars, fsVars, histVars,
                   initialVars, workerQueue, wpath, wscan, whash, wterm, wout, wown, doneCount,
                   stats>>

\* ProcessFile: CanProcess, TryLock (defer Unlock), write the marker (defer Remove)
PF_Enter(w) ==
    /\ ~crashed
    /\ wpc[w] = "enter"
    /\ LET p == wpath[w] IN
       IF ~CanProcess(p) \/ ~TryLockResult(processing, p)
       THEN \* 'skipped' ("File cannot be processed" / "already being processed"); return nil
            /\ emitted' = <<Ev("skipped", p)>>
            /\ stats' = handleProgressEvent(stats, "skipped")
            /\ wterm' = [wterm EXCEPT ![w] = 0]
            /\ wout' = [wout EXCEPT ![w] = "none"]
            /\ wpath' = [wpath EXCEPT ![w] = NoPath]
            /\ wscan' = [wscan EXCEPT ![w] = FALSE]
            /\ wpc' = [wpc EXCEPT ![w] = "idle"]
            /\ InitialDone(p)
            /\ UNCHANGED <<processing, markers, failBudget, wown>>
       ELSE /\ processing' = TryLockTable(processing, p)
            /\ \E ok \in BOOLEAN :
                 /\ Outcome(ok)
                 /\ markers' = IF ok THEN [markers EXCEPT ![p] = 0] ELSE markers
                 /\ wown' = [wown EXCEPT ![w] = IF ok THEN {"lock", "marker"} ELSE {"lock"}]
            /\ emitted' = <<>>
            /\ UNCHANGED stats
            /\ wpc' = [wpc EXCEPT ![w] = "hash"]
            /\ UNCHANGED <<wterm, wout, wpath, wscan, initialVars>>
    /\ UNCHANGED <<notWorker, chunkVars, exists, histVars, queueVars, whash, doneCount>>

\* transcribeChunks: results, the semaphore and the chunk goroutines set up
StartChunks(w, n) ==
    /\ chN' = [chN EXCEPT ![w] = n]
    /\ chG' = [chG EXCEPT ![w] = [i \in ChunkIds |-> IF i <= n THEN "wait" ELSE "none"]]
    /\ chSem' = [chSem EXCEPT ![w] = 0]
    /\ chFirstErr' = [chFirstErr EXCEPT ![w] = 0]
    /\ chCompleted' = [chCompleted EXCEPT ![w] = 0]
    /\ chResults' = [chResults EXCEPT ![w] = {}]

\* ProcessFile, the transcription failed: RecordFailed, the 'failed' event, return the error
FailedAs(w, h) ==
    /\ IF histOpen
       THEN histFailed' = RecordFailedF(histFailed, h) /\ UNCHANGED histLate
       ELSE histLate' = TRUE /\ UNCHANGED histFailed
    /\ emitted' = <<Ev("failed", wpath[w])>>
    /\ stats' = handleProgressEvent(stats, "failed")
    /\ wterm' = [wterm EXCEPT ![w] = @ + 1]
    /\ wout' = [wout EXCEPT ![w] = "failed"]
    /\ wpc' = [wpc EXCEPT ![w] = "defer"]
    /\ UNCHANGED <<histProcessed, doneCount, exists>>

Failed(w) == FailedAs(w, whash[w])

\* ProcessFile, the transcription succeeded: RecordProcessed, moveFile, the 'completed' event
Completed(w) ==
    /\ IF histOpen
       THEN /\ histProcessed' = RecordProcessedP(histProcessed, whash[w])
            /\ histFailed' = RecordProcessedF(histFailed, whash[w])
            /\ UNCHANGED histLate
       ELSE histLate' = TRUE /\ UNCHANGED <<histProcessed, histFailed>>
    /\ IF MoveToDir # "" THEN exists' = exists \ {wpath[w]} ELSE UNCHANGED exists
    /\ emitted' = <<Ev("completed", wpath[w])>>
    /\ stats' = handleProgressEvent(stats, "completed")
    /\ doneCount' = [doneCount EXCEPT ![whash[w]] = IF @ < 2 THEN @ + 1 ELSE @]
    /\ wterm' = [wterm EXCEPT ![w] = @ + 1]
    /\ wout' = [wout EXCEPT ![w] = "completed"]
    /\ wpc' = [wpc EXCEPT ![w] = "defer"]

NoChunks(w) ==
    /\ chN' = [chN EXCEPT ![w] = 0]
    /\ chG' = [chG EXCEPT ![w] = [i \in ChunkIds |-> "none"]]
    /\ chSem' = [chSem EXCEPT ![w] = 0]
    /\ chFirstErr' = [chFirstErr EXCEPT ![w] = 0]
    /\ chCompleted' = [chCompleted EXCEPT ![w] = 0]
    /\ chResults' = [chResults EXCEPT ![w] = {}]

\* ProcessFile: getFileHash, history.IsProcessed, os.Stat, MkdirAll, then
\* Transcribe up to the fan-out of transcribeChunks (ValidateFile,
\* GetAudioInfo, createChunks may fail)
PF_Hash(w) ==
    /\ ~crashed
    /\ wpc[w] = "hash"
    /\ LET p == wpath[w]
           h == getFileHash(FileOf(p)) IN
       IF p \notin exists
       THEN \* os.Open fails: return the error
            /\ wpc' = [wpc EXCEPT ![w] = "defer"]
            /\ emitted' = <<>>
            /\ wout' = [wout EXCEPT ![w] = "error"]
            /\ UNCHANGED <<whash, wterm, failBudget, chunkVars, histVars, doneCount, stats, exists>>
       ELSE IF histOpen /\ IsProcessed(histProcessed, h)
       THEN \* 'skipped' ("File already processed"); return nil
            /\ whash' = [whash EXCEPT ![w] = h]
            /\ emitted' = <<Ev("skipped", p)>>
            /\ stats' = handleProgressEvent(stats, "skipped")
            /\ wterm' = [wterm EXCEPT ![w] = @ + 1]
            /\ wout' = [wout EXCEPT ![w] = "skipped"]
            /\ wpc' = [wpc EXCEPT ![w] = "defer"]
            /\ UNCHANGED <<failBudget, chunkVars, histVars, doneCount, exists>>
       ELSE \* not processed (an error of IsProcessed is only logged)
            /\ whash' = [whash EXCEPT ![w] = h]
            /\ \E out \in {"ok", "stat", "mkdir", "early"} :
                 /\ Outcome(out = "ok")
                 /\ CASE out \in {"stat", "mkdir"} ->
                           \* os.Stat or MkdirAll fails: return the error
                           /\ wpc' = [wpc EXCEPT ![w] = "defer"]
                           /\ emitted' = <<>>
                           /\ histLate' = (histLate \/ ~histOpen)
                           /\ wout' = [wout EXCEPT ![w] = "error"]
                           /\ UNCHANGED <<wterm, chunkVars, histProcessed, histFailed,
                                          histOpen, doneCount, stats,
                                          exists>>
                      [] out = "early" ->
                           /\ FailedAs(w, h)
                           /\ UNCHANGED <<chunkVars, histOpen>>
                      [] out = "ok" ->
                           /\ StartChunks(w, numChunks[p])
                           /\ wpc' = [wpc EXCEPT ![w] = "chunks"]
                           /\ emitted' = <<>>
                           /\ histLate' = (histLate \/ ~histOpen)
                           /\ UNCHANGED <<wterm, wout, histProcessed, histFailed, histOpen,
                                          doneCount, stats, exists>>
    /\ UNCHANGED <<notWorker, processing, markers, queueVars, initialVars, wpath, wscan,
                   wown>>

\* ---------------------------------------------------------- transcribeChunks

\* A semaphore shared by the pipelines and sized for all of them.
SemSize_Pooled == maxWorkers * (IF optWorkers <= 0 THEN DefaultChunkWorkers ELSE optWorkers)

\* make(chan struct{}, workers), with workers = 3 when Options.Workers <= 0
SemSize == IF optWorkers <= 0 THEN DefaultChunkWorkers ELSE optWorkers

\* A chunk goroutine that does not wait for a token.
SemFree_Unbounded(w) == TRUE

\* `semaphore <- struct{}{}` can proceed
SemFree(w) == chSem[w] < SemSize

\* the provider.Transcribe calls in flight for the pipeline of worker w
InFlight(w) == Cardinality({i \in ChunkIds : chG[w][i] = "call"})

\* chunk goroutine, at its end: under mu the error (the first one kept) or the
\* result is recorded, completed counted and the callback called; then the
\* deferred token release and wg.Done
Finished(w, i, ok) ==
    /\ chFirstErr' = [chFirstErr EXCEPT ![w] = IF ~ok /\ @ = 0 THEN i ELSE @]
    /\ chResults' = [chResults EXCEPT ![w] = IF ok THEN @ \cup {i} ELSE @]
    /\ chCompleted' = [chCompleted EXCEPT ![w] = @ + 1]
    /\ chG' = [chG EXCEPT ![w][i] = "done"]

\* chunk goroutine: `semaphore <- struct{}{}`, then transcribeChunk up to the
\* provider call; when OpenAudio fails the goroutine ends here
G_Acquire(w, i) ==
    /\ ~crashed
    /\ wpc[w] = "chunks"
    /\ chG[w][i] = "wait"
    /\ SemFree(w)
    /\ \E ok \in BOOLEAN :
         /\ Outcome(ok)
         /\ IF ok
            THEN /\ chSem' = [chSem EXCEPT ![w] = @ + 1]
                 /\ chG' = [chG EXCEPT ![w][i] = "call"]
                 /\ UNCHANGED <<chFirstErr, chCompleted, chResults>>
            ELSE /\ Finished(w, i, FALSE)
                 /\ UNCHANGED chSem
    /\ emitted' = <<>>
    /\ UNCHANGED <<notWorker, processing, chN, fsVars, histVars, queueVars, initialVars,
                   workerVars, doneCount,
                   stats>>

\* chunk goroutine: provider.Transcribe returns a result or an error (a
\* cancelled or timed-out context makes it an error); the goroutine ends
G_ProviderReturn(w, i) ==
    /\ ~crashed
    /\ chG[w][i] = "call"
    /\ \E ok \in BOOLEAN :
         /\ IF ok THEN ~ctxDone /\ UNCHANGED failBudget
            ELSE IF ctxDone THEN UNCHANGED failBudget
            ELSE Outcome(FALSE)
         /\ Finished(w, i, ok)
    /\ chSem' = [chSem EXCEPT ![w] = @ - 1]
    /\ emitted' = <<>>
    /\ UNCHANGED <<notWorker, processing, chN, fsVars, histVars, queueVars, initialVars,
                   workerVars, doneCount,
                   stats>>

\* A transcribeChunks that returns as soon as an error has been recorded.
ChunksJoined_OnFirstError(w) ==
    \/ chFirstErr[w] # 0
    \/ \A i \in ChunkIds : chG[w][i] \in {"none", "done"}

\* transcribeChunks: wg.Wait has returned
ChunksJoined(w) == \A i \in ChunkIds : chG[w][i] \in {"none", "done"}

\* transcribeChunks returns (firstErr or the results), Transcribe merges and
\* saves, ProcessFile records the outcome
PF_Return(w) ==
    /\ ~crashed
    /\ wpc[w] = "chunks"
    /\ ChunksJoined(w)
    /\ NoChunks(w)
    /\ IF chFirstErr[w] # 0
       THEN Failed(w) /\ UNCHANGED failBudget
       ELSE \E ok \in BOOLEAN :
              /\ Outcome(ok)
              /\ IF ok THEN Completed(w) ELSE Failed(w)
    /\ UNCHANGED <<notWorker, processing, markers, histOpen, queueVars, initialVars,
                   wpath, wscan, whash, wown>>

\* ProcessFile returns, first deferred call: os.Remove(markerFile)
PF_RemoveMarker(w) ==
    /\ ~crashed
    /\ wpc[w] = "defer"
    /\ markers' = [markers EXCEPT ![wpath[w]] = NoMarker]
    /\ wown' = Disown(wown, {wpath[w]}, "marker")
    /\ wpc' = [wpc EXCEPT ![w] = "unlock"]
    /\ emitted' = <<>>
    /\ UNCHANGED <<notWorker, processing, failBudget, chunkVars, exists, histVars,
                   queueVars, initialVars, wpath, wscan, whash, wterm, wout, doneCount,
                   stats>>

\* ProcessFile returns, second deferred call: tracker.Unlock; back in
\* processWorker the initial-processing entry is settled
PF_Unlock(w) ==
    /\ ~crashed
    /\ wpc[w] = "unlock"
    /\ processing' = Delete(processing, wpath[w])
    /\ InitialDone(wpath[w])
    /\ wpc' = [wpc EXCEPT ![w] = "idle"]
    /\ wpath' = [wpath EXCEPT ![w] = NoPath]
    /\ wscan' = [wscan EXCEPT ![w] = FALSE]
    /\ whash' = [whash EXCEPT ![w] = NoHash]
    /\ wterm' = [wterm EXCEPT ![w] = 0]
    /\ wout' = [wout EXCEPT ![w] = "none"]
    /\ wown' = [Disown(wown, {wpath[w]}, "lock") EXCEPT ![w] = {}]
    /\ emitted' = <<>>
    /\ UNCHANGED <<notWorker, failBudget, chunkVars, fsVars, histVars, queueVars, doneCount,
                   stats>>

\* ------------------------------------------------------------- fileWatcher

\* make(chan string, config.MaxWorkers*2)
QueueCap == maxWorkers * QueueFactor

\* the entries of a walk: the directory's files, in lexical order
RECURSIVE WalkFrom(_, _)
WalkFrom(i, files) ==
    IF i > Len(WalkOrder) THEN <<>>
    ELSE IF WalkOrder[i] \in files THEN <<WalkOrder[i]>> \o WalkFrom(i + 1, files)
    ELSE WalkFrom(i + 1, files)
Walk(files) == WalkFrom(1, files)

\* A Start that leaves every marker where it is.
StaleMarkersRemoved_NoSweep(mk) == mk

\* cleanupStaleMarkers: markers with time.Since(ModTime) > ProcessingTimeout are removed
StaleMarkersRemoved(mk) ==
    [p \in Paths |-> IF mk[p] # NoMarker /\ mk[p] > ProcessingTimeout THEN NoMarker ELSE mk[p]]

\* what no step of the main goroutine, the watch loop or the cleanup routine touches
notWatcher == <<harnessVars, cfgVars, failBudget, chunkVars, histProcessed, histFailed,
                histLate, whash, wterm, wout, wpath, wscan, doneCount,
                   stats>>

\* queueFile: a non-blocking send; 'found' when sent, a warning when the queue
\* is full. A send on the closed channel panics.
queueFile(p) ==
    IF stopCh
    THEN /\ crashed' = TRUE
         /\ emitted' = <<Ev("panic", p)>>
         /\ UNCHANGED workerQueue
    ELSE IF Len(workerQueue) < QueueCap
    THEN /\ workerQueue' = Append(workerQueue, [path |-> p, scan |-> FALSE])
         /\ emitted' = <<Ev("found", p)>>
         /\ UNCHANGED crashed
    ELSE /\ emitted' = <<Ev("queue_full", p)>>
         /\ UNCHANGED <<workerQueue, crashed>>

\* Start: addWatchDir, the workers and the cleanup routine spawned,
\* cleanupStaleMarkers, and the walk of processExistingFiles begun
Start ==
    /\ ~crashed
    /\ mainPc = "init"
    /\ wpc' = [w \in WorkerIds |-> IF w <= maxWorkers THEN "idle" ELSE "none"]
    /\ cleanupPc' = "run"
    /\ wg' = wg + maxWorkers + 1
    /\ markers' = StaleMarkersRemoved(markers)
    /\ scanRem' = Walk(exists)
    /\ mainPc' = "scan"
    /\ emitted' = <<>>
    /\ UNCHANGED <<notWatcher, wown, trackerVars, scanBudget, eventBudget, deleteBudget, exists,
                   histOpen, chanVars, workerQueue, initialVars, eventVars, watchVars>>

\* processExistingFiles, the walk function on one file: CanProcess, the entry
\* in initialProcessingMap, initialProcessing.Add(1), the blocking send. A file
\* that vanished since the directory was read ends the walk with its error.
ScanFile ==
    /\ ~crashed
    /\ mainPc = "scan"
    /\ scanRem # <<>>
    /\ LET p == Head(scanRem) IN
       IF p \notin exists
       THEN /\ scanRem' = <<>>
            /\ UNCHANGED <<workerQueue, initialVars>>
       ELSE IF ~CanProcess(p)
       THEN /\ scanRem' = Tail(scanRem)
            /\ UNCHANGED <<workerQueue, initialVars>>
       ELSE /\ Len(workerQueue) < QueueCap
            /\ initialMap' = initialMap \cup {p}
            /\ initialWG' = initialWG + 1
            /\ workerQueue' = Append(workerQueue, [path |-> p, scan |-> TRUE])
            /\ scanRem' = Tail(scanRem)
    /\ emitted' = <<>>
    /\ UNCHANGED <<notWatcher, wown, trackerVars, scanBudget, eventBudget, deleteBudget, fsVars,
                   histOpen, chanVars, wg, eventVars, mainPc, watchVars, cleanupPc, wpc>>

\* Start: `fw.wg.Add(1); go fw.watchLoop(ctx)`; Start returns
StartWatchLoop ==
    /\ ~crashed
    /\ mainPc = "scan"
    /\ scanRem = <<>>
    /\ wg' = wg + 1
    /\ watchPc' = "loop"
    /\ mainPc' = "running"
    /\ emitted' = <<>>
    /\ UNCHANGED <<notWatcher, wown, trackerVars, scanBudget, eventBudget, deleteBudget, fsVars,
                   histOpen, chanVars, workerQueue, initialVars, eventVars, scanRem,
                   watchPath, watchRem, cleanupPc, wpc>>

\* Stop (on the signal, or in --once mode after the initial WaitGroup):
\* close(stopCh), watcher.Close(), close(workerQueue)
Stop ==
    /\ ~crashed
    /\ mainPc = "running"
    /\ stopCh' = TRUE
    /\ events' = {}
    /\ mainPc' = "stopping"
    /\ emitted' = <<>>
    /\ UNCHANGED <<notWatcher, wown, trackerVars, scanBudget, eventBudget, deleteBudget, fsVars,
                   histOpen, ctxDone, crashed, queueVars, initialVars, recent, scanRem,
                   watchVars, cleanupPc, wpc>>

\* A Stop that does not wait for the goroutines.
WgWaitDone_NoWait == TRUE

\* fw.wg.Wait() returns
WgWaitDone == wg = 0

\* Stop: fw.wg.Wait() has returned; history.Close()
StopClose ==
    /\ ~crashed
    /\ mainPc = "stopping"
    /\ WgWaitDone
    /\ histOpen' = FALSE
    /\ mainPc' = "stopped"
    /\ emitted' = <<>>
    /\ UNCHANGED <<notWatcher, wown, trackerVars, scanBudget, eventBudget, deleteBudget, fsVars,
                   chanVars, queueVars, initialVars, eventVars, scanRem, watchVars,
                   cleanupPc, wpc>>

\* the caller of Start cancels the context
CancelCtx ==
    /\ ~crashed
    /\ mainPc \in {"scan", "running"}
    /\ ~ctxDone
    /\ ctxDone' = TRUE
    /\ emitted' = <<>>
    /\ UNCHANGED <<notWatcher, wown, trackerVars, scanBudget, eventBudget, deleteBudget, fsVars,
                   histOpen, stopCh, crashed, queueVars, initialVars, eventVars, mainVars,
                   watchVars, cleanupPc, wpc>>

\* watchLoop: ctx.Done, stopCh, or the closed Events / Errors channel
WL_Exit ==
    /\ ~crashed
    /\ watchPc = "loop"
    /\ ctxDone \/ stopCh
    /\ watchPc' = "exit"
    /\ wg' = wg - 1
    /\ emitted' = <<>>
    /\ UNCHANGED <<notWatcher, wown, trackerVars, scanBudget, eventBudget, deleteBudget, fsVars,
                   histOpen, chanVars, workerQueue, initialVars, eventVars, mainVars,
                   watchPath, watchRem, cleanupPc, wpc>>

\* watchLoop receives an event; handleFileEvent: isDuplicateEvent (an event
\* for the path within the last 5 s), then the switch on event.Op
WL_Event(e) ==
    /\ ~crashed
    /\ watchPc = "loop"
    /\ e \in events
    /\ events' = events \ {e}
    /\ IF e.name \in recent
       THEN UNCHANGED <<recent, watchPc, watchPath>>
       ELSE /\ recent' = recent \cup {e.name}
            /\ IF e.op \in {"create", "write"}
               THEN watchPc' = "handle" /\ watchPath' = e.name
               ELSE UNCHANGED <<watchPc, watchPath>>
    /\ emitted' = <<>>
    /\ UNCHANGED <<notWatcher, wown, trackerVars, scanBudget, eventBudget, deleteBudget, fsVars,
                   histOpen, chanVars, queueVars, initialVars, mainVars, watchRem,
                   cleanupPc, wpc>>

\* handleFileEvent, Create or Write (after the StabilityWait sleep):
\* `if !fw.tracker.IsLocked(name) && fw.processor.CanProcess(name) { fw.queueFile(name) }`
WL_Handle ==
    /\ ~crashed
    /\ watchPc = "handle"
    /\ IF ~IsLocked(processing, watchPath) /\ CanProcess(watchPath)
       THEN queueFile(watchPath)
       ELSE emitted' = <<>> /\ UNCHANGED <<workerQueue, crashed>>
    /\ watchPc' = "loop"
    /\ watchPath' = NoPath
    /\ UNCHANGED <<notWatcher, wown, trackerVars, scanBudget, eventBudget, deleteBudget, fsVars,
                   histOpen, stopCh, ctxDone, wg, initialVars, eventVars, mainVars,
                   watchRem, cleanupPc, wpc>>

\* watchLoop: ticker.C; periodicScan starts its walk
WL_Tick ==
    /\ ~crashed
    /\ watchPc = "loop"
    /\ scanBudget > 0
    /\ scanBudget' = scanBudget - 1
    /\ watchRem' = Walk(exists)
    /\ watchPc' = IF Walk(exists) = <<>> THEN "loop" ELSE "scan"
    /\ emitted' = <<>>
    /\ UNCHANGED <<notWatcher, wown, trackerVars, eventBudget, deleteBudget, fsVars, histOpen,
                   chanVars, queueVars, initialVars, eventVars, mainVars, watchPath,
                   cleanupPc, wpc>>

\* periodicScan, the walk function on one file: an error is skipped, an
\* admissible file is queued
WL_ScanFile ==
    /\ ~crashed
    /\ watchPc = "scan"
    /\ LET p == Head(watchRem) IN
       IF CanProcess(p)
       THEN queueFile(p)
       ELSE emitted' = <<>> /\ UNCHANGED <<workerQueue, crashed>>
    /\ watchRem' = Tail(watchRem)
    /\ watchPc' = IF Tail(watchRem) = <<>> THEN "loop" ELSE "scan"
    /\ UNCHANGED <<notWatcher, wown, trackerVars, scanBudget, eventBudget, deleteBudget, fsVars,
                   histOpen, stopCh, ctxDone, wg, initialVars, eventVars, mainVars,
                   watchPath, cleanupPc, wpc>>

\* cleanupRoutine: ticker.C (5 min); tracker.CleanupStale(ProcessingTimeout),
\* cleanupRecentEvents (entries older than 30 s: none of `recent`)
CR_Tick ==
    /\ ~crashed
    /\ cleanupPc = "run"
    /\ StaleSet(processing, ProcessingTimeout) # {}
    /\ processing' = CleanupStale(processing, ProcessingTimeout)
    /\ wown' = Disown(wown, StaleSet(processing, ProcessingTimeout), "lock")
    /\ emitted' = <<>>
    /\ UNCHANGED <<notWatcher, scanBudget, eventBudget, deleteBudget, fsVars, histOpen,
                   chanVars, queueVars, initialVars, eventVars, mainVars, watchVars,
                   cleanupPc, wpc>>

\* cleanupRoutine: stopCh
CR_Exit ==
    /\ ~crashed
    /\ cleanupPc = "run"
    /\ stopCh
    /\ cleanupPc' = "exit"
    /\ wg' = wg - 1
    /\ emitted' = <<>>
    /\ UNCHANGED <<notWatcher, wown, trackerVars, scanBudget, eventBudget, deleteBudget, fsVars,
                   histOpen, chanVars, workerQueue, initialVars, eventVars, mainVars,
                   watchVars, wpc>>

\* ---------------------------------------------------------- the environment

\* a file is dropped into the watched directory (op "create"), or a file
\* there is written to (op "write"); fsnotify reports it while the watcher is open
FsEvent(p, op) ==
    /\ ~crashed
    /\ mainPc \in {"scan", "running", "stopping"}
    /\ eventBudget > 0
    /\ eventBudget' = eventBudget - 1
    /\ IF op = "create" THEN p \notin exists ELSE p \in exists
    /\ exists' = exists \cup {p}
    /\ events' = IF stopCh THEN events ELSE events \cup {[name |-> p, op |-> op]}
    /\ emitted' = <<>>
    /\ UNCHANGED <<notWatcher, wown, trackerVars, scanBudget, deleteBudget, markers, histOpen,
                   chanVars, queueVars, initialVars, recent, mainVars, watchVars,
                   cleanupPc, wpc>>

\* a file is removed from outside
FileDelete(p) ==
    /\ ~crashed
    /\ mainPc \in {"scan", "running", "stopping"}
    /\ deleteBudget > 0
    /\ deleteBudget' = deleteBudget - 1
    /\ p \in exists
    /\ exists' = exists \ {p}
    /\ emitted' = <<>>
    /\ UNCHANGED <<notWatcher, wown, trackerVars, scanBudget, eventBudget, markers, histOpen,
                   chanVars, queueVars, initialVars, eventVars, mainVars, watchVars,
                   cleanupPc, wpc>>

\* ------------------------------------------------------------ the watcher

Init ==
    /\ InitTrackerTable /\ InitHarness
    /\ maxWorkers \in MaxWorkersChoices
    /\ optWorkers = 1
    /\ failBudget = MaxFailures
    /\ scanBudget = MaxScans
    /\ eventBudget = MaxFsEvents
    /\ deleteBudget = MaxDeletes
    /\ numChunks = [p \in Paths |-> 1]
    /\ InitChunks /\ InitHistory /\ InitWatcher /\ InitWorkers /\ InitOut /\ InitNoCall
    /\ exists = {"a.mp3"}
    /\ markers = [p \in Paths |-> NoMarker]

WorkerNext(w) ==
    \/ PW_Receive(w)
    \/ PW_Closed(w)
    \/ PF_Enter(w)
    \/ PF_Hash(w)
    \/ \E i \in ChunkIds : G_Acquire(w, i)
    \/ \E i \in ChunkIds : G_ProviderReturn(w, i)
    \/ PF_Return(w)
    \/ PF_RemoveMarker(w)
    \/ PF_Unlock(w)

Next ==
    \/ Start
    \/ ScanFile
    \/ StartWatchLoop
    \/ Stop
    \/ StopClose
    \/ WL_Exit
    \/ \E p \in Paths, op \in {"create", "write"} : WL_Event([name |-> p, op |-> op])
    \/ WL_Handle
    \/ WL_Tick
    \/ WL_ScanFile
    \/ CR_Tick
    \/ CR_Exit
    \/ \E w \in WorkerIds : WorkerNext(w)
    \/ \E p \in Paths, op \in {"create", "write"} : FsEvent(p, op)
    \/ \E p \in Paths : FileDelete(p)
    \/ Tick

Spec == Init /\ [][Next]_vars

\* ------------------------------------------- SpecChunks: one transcribeChunks

\* Worker 1 has taken the startup scan's entry for a.mp3 and its ProcessFile
\* has reached the fan-out of transcribeChunks, for any planned number of
\* chunks and any configured Options.Workers.
InitChunkCall ==
    /\ processing = [p \in Paths |-> IF p = "a.mp3" THEN 0 ELSE NoLock]
    /\ InitHarness
    /\ maxWorkers = 1
    /\ optWorkers \in OptWorkersChoices
    /\ numChunks \in {[p \in Paths |-> IF p = "a.mp3" THEN n ELSE 1] : n \in ChunkIds}
    /\ failBudget = MaxChunkFailures /\ scanBudget = 0 /\ eventBudget = 0 /\ deleteBudget = 0
    /\ chN = [w \in WorkerIds |-> IF w = 1 THEN numChunks["a.mp3"] ELSE 0]
    /\ chG = [w \in WorkerIds |-> [i \in ChunkIds |->
                 IF w = 1 /\ i <= numChunks["a.mp3"] THEN "wait" ELSE "none"]]
    /\ chSem = [w \in WorkerIds |-> 0]
    /\ chFirstErr = [w \in WorkerIds |-> 0]
    /\ chCompleted = [w \in WorkerIds |-> 0]
    /\ chResults = [w \in WorkerIds |-> {}]
    /\ exists = {"a.mp3"}
    /\ markers = [p \in Paths |-> IF p = "a.mp3" THEN 0 ELSE NoMarker]
    /\ InitHistory
    /\ stopCh = FALSE /\ ctxDone = FALSE /\ crashed = FALSE
    /\ workerQueue = <<>> /\ wg = 3
    /\ initialMap = {"a.mp3"} /\ initialWG = 1
    /\ events = {} /\ recent = {}
    /\ mainPc = "running" /\ scanRem = <<>>
    /\ watchPc = "loop" /\ watchPath = NoPath /\ watchRem = <<>>
    /\ cleanupPc = "run"
    /\ wpc = [w \in WorkerIds |-> IF w = 1 THEN "chunks" ELSE "none"]
    /\ wpath = [w \in WorkerIds |-> IF w = 1 THEN "a.mp3" ELSE NoPath]
    /\ wscan = [w \in WorkerIds |-> w = 1]
    /\ whash = [w \in WorkerIds |-> IF w = 1 THEN getFileHash(FileOf("a.mp3")) ELSE NoHash]
    /\ wterm = [w \in WorkerIds |-> 0]
    /\ wout = [w \in WorkerIds |-> "none"]
    /\ wown = [w \in WorkerIds |-> {}]
    /\ InitOut /\ InitNoCall

NextChunks ==
    \/ \E w \in WorkerIds, i \in ChunkIds : G_Acquire(w, i)
    \/ \E w \in WorkerIds, i \in ChunkIds : G_ProviderReturn(w, i)
    \/ \E w \in WorkerIds : PF_Return(w)

SpecChunks == InitChunkCall /\ [][NextChunks]_vars

\* ------------------------------- SpecPool: the worker pool on multi-chunk files

\* Two workers, two files of two chunks each, one chunk worker per pipeline.
InitPool ==
    /\ InitTrackerTable /\ InitHarness
    /\ maxWorkers = 2
    /\ optWorkers = 1
    /\ numChunks = [p \in Paths |-> 2]
    /\ failBudget = MaxFailures /\ scanBudget = 0 /\ eventBudget = 0 /\ deleteBudget = 0
    /\ InitChunks /\ InitHistory /\ InitWatcher /\ InitWorkers /\ InitOut /\ InitNoCall
    /\ exists = Paths
    /\ markers = [p \in Paths |-> NoMarker]

NextPool ==
    \/ Start
    \/ ScanFile
    \/ StartWatchLoop
    \/ Stop
    \/ StopClose
    \/ WL_Exit
    \/ CR_Exit
    \/ \E w \in WorkerIds : WorkerNext(w)

SpecPool == InitPool /\ [][NextPool]_vars

\* ------------------------- SpecCancel: the context cancelled, Stop not called

InitCancel ==
    /\ InitTrackerTable /\ InitHarness
    /\ maxWorkers = 2
    /\ optWorkers = 1
    /\ numChunks = [p \in Paths |-> 1]
    /\ InitNoBudget
    /\ InitChunks /\ InitHistory /\ InitWatcher /\ InitWorkers /\ InitOut /\ InitNoCall
    /\ exists = Paths
    /\ markers = [p \in Paths |-> NoMarker]

\* the steps of the program's goroutines
ProgramCancel ==
    \/ Start
    \/ ScanFile
    \/ StartWatchLoop
    \/ WL_Exit
    \/ \E w \in WorkerIds : PW_Receive(w)
    \/ \E w \in WorkerIds : PF_Enter(w)
    \/ \E w \in WorkerIds : PF_Hash(w)
    \/ \E w \in WorkerIds, i \in ChunkIds : G_Acquire(w, i)
    \/ \E w \in WorkerIds, i \in ChunkIds : G_ProviderReturn(w, i)
    \/ \E w \in WorkerIds : PF_Return(w)
    \/ \E w \in WorkerIds : PF_RemoveMarker(w)
    \/ \E w \in WorkerIds : PF_Unlock(w)

NextCancel ==
    \/ ProgramCancel
    \/ CancelCtx

\* the Go scheduler runs every goroutine that can take a step
SpecCancel == InitCancel /\ [][NextCancel]_vars /\ WF_vars(ProgramCancel)

\* ------------------------------------------------------------------ claims

\* the provider.Transcribe calls in flight across the whole watcher
TotalInFlight == Cardinality({wi \in WorkerIds \X ChunkIds : chG[wi[1]][wi[2]] = "call"})

\* a worker is inside ProcessFile
InProcessFile(w) == wpc[w] \in {"enter", "hash", "chunks", "defer", "unlock"}

\* C1: across all workers and all paths, no fingerprint is transcribed to a
\* 'completed' outcome more than once, also when two distinct paths with
\* identical content are in flight at the same time or a path is enqueued
\* several times.
C1_AtMostOncePerContent == \A f \in Fingerprints : doneCount[f] <= 1

\* C2: every ProcessFile invocation emits one 'processing' event followed by
\* exactly one terminal event (completed, failed or skipped) on every exit
\* path: never more than one, and exactly one has been emitted when ProcessFile
\* runs its deferred calls on the way out.
C2_ExactlyOneTerminal ==
    \A w \in WorkerIds :
       /\ wterm[w] <= 1
       /\ wpc[w] \in {"defer", "unlock"} => wterm[w] = 1

\* C3: for every ProcessFile invocation that acquired the lock for a path,
\* whatever exit path it takes, when it returns the path is not in the lock
\* table and the marker file of the path does not exist.
C3_LockAndMarkerGoneAtReturn ==
    [][\A w \in WorkerIds :
         (wpc[w] = "unlock" /\ wpc'[w] = "idle") =>
            /\ ~Exists(processing', wpath[w])
            /\ markers'[wpath[w]] = NoMarker]_vars

\* C4: TryLock is exclusive under any interleaving of TryLock/Unlock/IsLocked
\* calls: at most one caller holds a path between a successful TryLock and the
\* next Unlock; a TryLock returns true exactly when the path was not held at the
\* moment of its test (so it fails while the path is held and succeeds again
\* after Unlock), it then inserts the path; IsLocked returns true exactly while
\* the path is held.
C4_TryLockExclusive ==
    /\ \A p \in Paths : Cardinality(holders[p]) <= 1
    /\ \A p \in Paths : (holders[p] # {}) => Exists(processing, p)
    /\ \A c \in Callers :
         tcall[c].pc = "done" =>
           /\ tcall[c].op = "TryLock" => tcall[c].res = ~tcall[c].held
           /\ tcall[c].op = "IsLocked" => tcall[c].res = tcall[c].held

\* C4 witness: a TryLock on a held path has returned false, the holder still
\* holding it.
C4_Witness ==
    \E c \in Callers, d \in Callers :
       /\ c # d
       /\ tcall[c].pc = "done" /\ tcall[c].op = "TryLock" /\ ~tcall[c].res
       /\ holders[tcall[c].path] = {d}

\* C5: at every moment the provider calls in flight across the whole watcher
\* number at most MaxWorkers x chunk Workers (3 chunk workers when
\* Options.Workers <= 0).
C5_TotalInFlightBounded ==
    TotalInFlight <= maxWorkers * (IF optWorkers <= 0 THEN 3 ELSE optWorkers)

\* C5 witness: both workers run a pipeline, each has a provider call in
\* flight and a further chunk waiting for the token: the bound is reached.
C5_Witness ==
    /\ TotalInFlight = maxWorkers * optWorkers
    /\ \A w \in WorkerIds :
         /\ wpc[w] = "chunks"
         /\ InFlight(w) = 1
         /\ \E i \in ChunkIds : chG[w][i] = "wait"

\* C6: during transcribeChunks for one file the provider calls in flight
\* never exceed W = Options.Workers (W = 3 when Options.Workers <= 0), for any
\* number of chunks and any completion order.
C6_PerFileInFlightBounded ==
    \A w \in WorkerIds :
       InFlight(w) <= (IF optWorkers <= 0 THEN 3 ELSE optWorkers)

\* C6 witness: Options.Workers <= 0, more than three chunks: three calls are
\* in flight, a chunk has already finished and another waits for a token.
C6_Witness ==
    /\ optWorkers <= 0
    /\ InFlight(1) = 3
    /\ \E i \in ChunkIds : chG[1][i] = "wait"
    /\ \E i \in ChunkIds : chG[1][i] = "done"

\* C7: Stop closes the history store only after every worker, the watch loop
\* and the cleanup task have exited; no IsProcessed / RecordProcessed /
\* RecordFailed call reaches the store after Close, so a ProcessFile in flight
\* when Stop is called runs to its end with the store open.
C7_CloseAfterDrain ==
    /\ ~histLate
    /\ ~histOpen =>
         /\ \A w \in WorkerIds : wpc[w] \in {"none", "exit"}
         /\ watchPc = "exit"
         /\ cleanupPc = "exit"
    /\ \A w \in WorkerIds : InProcessFile(w) => histOpen

\* C7 witness: Stop has been called and awaits the goroutines; a ProcessFile
\* that was in flight has just recorded its result in the store, still open.
C7_Witness ==
    /\ mainPc = "stopping"
    /\ stopCh
    /\ histOpen
    /\ \E w \in WorkerIds :
         /\ wpc[w] = "defer"
         /\ emitted = <<Ev("completed", wpath[w])>>
         /\ whash[w] \in histProcessed

\* the watch loop, every worker and the cleanup task have terminated
AllTerminated ==
    /\ watchPc = "exit"
    /\ cleanupPc = "exit"
    /\ \A w \in WorkerIds : wpc[w] \in {"none", "exit"}

\* C8: after the context passed to Start is cancelled (Stop not called), the
\* watch loop, every worker - the workers idle on an empty queue too - and the
\* cleanup task all eventually terminate.
C8_CancelTerminatesAll == [](ctxDone => <>AllTerminated)

\* C9: the WaitGroup of WaitForInitialProcessing reaches zero only after, for
\* every file the startup scan enqueued, the ProcessFile invocation of its
\* startup-scan queue entry has returned: while the counter is zero no such
\* entry is in the queue or in a worker's hands. Entries queued for the same
\* path by events or rescans do not decrement it.
C9_InitialWaitGroupExact ==
    initialWG = 0 =>
       /\ \A k \in 1..Len(workerQueue) : ~workerQueue[k].scan
       /\ \A w \in WorkerIds : ~(InProcessFile(w) /\ wscan[w])

\* C10: the worker queue never holds more than 2 x MaxWorkers paths, and
\* queueFile never blocks: called on a full queue it drops the path, leaves the
\* queue unchanged and emits no 'found' event; called when there is room it
\* appends the path and emits exactly one 'found' event for it.
C10_BoundedQueueNonBlocking ==
    /\ [](Len(workerQueue) <= 2 * maxWorkers)
    /\ [][\A p \in Paths :
            (Len(emitted') = 1 /\ emitted'[1].path = p
               /\ emitted'[1].type \in {"found", "queue_full", "panic"}) =>
              IF Len(workerQueue) < 2 * maxWorkers
              THEN /\ Len(workerQueue') = Len(workerQueue) + 1
                   /\ workerQueue'[Len(workerQueue')].path = p
                   /\ SubSeq(workerQueue', 1, Len(workerQueue)) = workerQueue
                   /\ emitted' = <<Ev("found", p)>>
              ELSE /\ workerQueue' = workerQueue
                   /\ emitted' = <<Ev("queue_full", p)>>]_vars

\* ------------------------------- SpecDrop: one file dropped into an empty directory

\* The watched directory is empty at Start; one file is dropped in later.
InitDrop ==
    /\ InitTrackerTable /\ InitHarness
    /\ maxWorkers \in MaxWorkersChoices
    /\ optWorkers = 1
    /\ numChunks = [p \in Paths |-> 1]
    /\ failBudget = 0
    /\ scanBudget = MaxScans
    /\ eventBudget = MaxFsEvents
    /\ deleteBudget = 0
    /\ InitChunks /\ InitHistory /\ InitWatcher /\ InitWorkers /\ InitOut /\ InitNoCall
    /\ exists = {}
    /\ markers = [p \in Paths |-> NoMarker]

NextDrop ==
    \/ Start
    \/ StartWatchLoop
    \/ \E p \in Paths : FsEvent(p, "create")
    \/ \E p \in Paths, op \in {"create", "write"} : WL_Event([name |-> p, op |-> op])
    \/ WL_Handle
    \/ WL_Tick
    \/ WL_ScanFile
    \/ \E w \in WorkerIds : PW_Receive(w)
    \/ \E w \in WorkerIds : PF_Enter(w)
    \/ \E w \in WorkerIds : PF_Hash(w)
    \/ \E w \in WorkerIds, i \in ChunkIds : G_Acquire(w, i)
    \/ \E w \in WorkerIds, i \in ChunkIds : G_ProviderReturn(w, i)
    \/ \E w \in WorkerIds : PF_Return(w)
    \/ \E w \in WorkerIds : PF_RemoveMarker(w)
    \/ \E w \in WorkerIds : PF_Unlock(w)

SpecDrop == InitDrop /\ [][NextDrop]_vars

\* the path has been queued before: its entry waits in the queue, a worker has
\* it in hand, or its ProcessFile has ended and left its record in the history
AlreadyFound(p) ==
    \/ \E k \in 1..Len(workerQueue) : workerQueue[k].path = p
    \/ \E w \in WorkerIds : wpath[w] = p
    \/ getFileHash(FileOf(p)) \in histProcessed
    \/ histFailed[getFileHash(FileOf(p))] # -1

\* C11: one file dropped into the watched directory and left unchanged yields
\* exactly one 'found', one 'processing' and one terminal event for the rest of
\* the run, whatever the interleaving of events, rescans and workers: no 'found'
\* is emitted for a path that has been queued before, and no 'processing' for
\* a path whose ProcessFile has already ended in the history.
C11_OneFoundOneProcessing ==
    [][\A p \in Paths :
         /\ emitted' = <<Ev("found", p)>> => ~AlreadyFound(p)
         /\ emitted' = <<Ev("processing", p)>> =>
               /\ getFileHash(FileOf(p)) \notin histProcessed
               /\ histFailed[getFileHash(FileOf(p))] = -1]_vars

\* --------------------------------- SpecRecover: Start after a crashed run

\* A crashed run left a.mp3.processing, older than ProcessingTimeout; b.mp3
\* has no marker or one not older than ProcessingTimeout.
InitRecover ==
    /\ InitTrackerTable /\ InitHarness
    /\ maxWorkers \in MaxWorkersChoices
    /\ optWorkers = 1
    /\ numChunks = [p \in Paths |-> 1]
    /\ InitNoBudget
    /\ InitChunks /\ InitHistory /\ InitWatcher /\ InitWorkers /\ InitOut /\ InitNoCall
    /\ exists = Paths
    /\ markers \in {[p \in Paths |-> IF p = "a.mp3" THEN old ELSE young] :
                       old \in (ProcessingTimeout + 1)..MaxAge,
                       young \in {NoMarker} \cup 0..ProcessingTimeout}

NextRecover ==
    \/ Start
    \/ ScanFile
    \/ StartWatchLoop
    \/ \E w \in WorkerIds : PW_Receive(w)
    \/ \E w \in WorkerIds : PF_Enter(w)
    \/ \E w \in WorkerIds : PF_Hash(w)
    \/ \E w \in WorkerIds, i \in ChunkIds : G_Acquire(w, i)
    \/ \E w \in WorkerIds, i \in ChunkIds : G_ProviderReturn(w, i)
    \/ \E w \in WorkerIds : PF_Return(w)
    \/ \E w \in WorkerIds : PF_RemoveMarker(w)
    \/ \E w \in WorkerIds : PF_Unlock(w)

SpecRecover == InitRecover /\ [][NextRecover]_vars

\* the startup scan visits p in this step
ScanVisits(p) ==
    /\ mainPc = "scan" /\ scanRem # <<>> /\ Head(scanRem) = p
    /\ scanRem' # scanRem

ProcessFileEnds(w) == wpc[w] \in {"hash", "chunks"} /\ wpc'[w] = "defer"

\* C13: every ProcessFile invocation that ends in a per-file error (hash,
\* stat, output-directory or transcription failure, timeout) has recorded a
\* FailedRecord for the file and emitted a 'failed' event before it returns:
\* an invocation ends either with 'completed' or 'skipped' (it returns nil) or
\* with 'failed' and an entry for its fingerprint in the failed namespace.
C13_ErrorsRecordedAndReported ==
    [][\A w \in WorkerIds :
         ProcessFileEnds(w) =>
            \/ emitted' \in {<<Ev("completed", wpath[w])>>, <<Ev("skipped", wpath[w])>>}
            \/ /\ emitted' = <<Ev("failed", wpath[w])>>
               /\ histFailed'[getFileHash(FileOf(wpath[w]))] # -1]_vars

\* ----------------------------------------------------------- C14: skipping

\* The step in which worker w's ProcessFile takes one of its three skipping
\* returns: CanProcess false or TryLock failed at entry, or the fingerprint
\* found in the processed namespace
SkipsAtEntry(w) == wpc[w] = "enter" /\ wpc'[w] = "idle"

SkipsAsProcessed(w) == wpc[w] = "hash" /\ wout'[w] = "skipped"

\* A deferred call of a skipped invocation runs
SkippedDefer(w) ==
    wout[w] = "skipped" /\ wpc[w] \in {"defer", "unlock"} /\ wpc'[w] # wpc[w]

\* No transcription is started for w and neither history namespace is written
Untouched(w) ==
    /\ chN'[w] = 0
    /\ chG'[w] = chG[w]
    /\ histProcessed' = histProcessed
    /\ histFailed' = histFailed

\* C14: every skipped outcome (at entry, or because the fingerprint is already
\* processed) returns nil with the 'skipped' event, starts no transcription,
\* writes nothing to the processed or the failed namespace, and from its
\* return to the end of its deferred calls takes away no lock and no marker
\* that another worker's invocation put in place
C14_SkippedIsInert ==
    [][\A w \in WorkerIds :
         /\ SkipsAtEntry(w) =>
               /\ emitted' = <<Ev("skipped", wpath[w])>>
               /\ Untouched(w)
               /\ processing' = processing
               /\ markers' = markers
         /\ SkipsAsProcessed(w) =>
               /\ emitted' = <<Ev("skipped", wpath[w])>>
               /\ Untouched(w)
               /\ processing' = processing
               /\ markers' = markers
         /\ SkippedDefer(w) =>
               /\ Untouched(w)
               /\ \A v \in WorkerIds \ {w} : wown'[v] = wown[v]]_vars

\* ------------------------------------- SpecHistory: the history store alone

\* what a direct call of a library function leaves alone
unitFrame == <<harnessVars, maxWorkers, optWorkers, numChunks, unitVars, budgetVars, chunkVars, fsVars,
               chanVars, queueVars, initialVars, eventVars, mainVars, watchVars, cleanupPc,
               workerVars, outVars>>

HistState == [processed |-> histProcessed, failed |-> histFailed]

\* bolt: View and Update on a closed db return ErrDatabaseNotOpen
H_Call(op, fp, ret) == [op |-> op, arg |-> fp, pre |-> HistState, ret |-> ret]

\* history.RecordProcessed(fp, info)
H_RecordProcessed(fp) ==
    /\ IF histOpen
       THEN /\ histProcessed' = RecordProcessedP(histProcessed, fp)
            /\ histFailed' = RecordProcessedF(histFailed, fp)
            /\ ufails' = [ufails EXCEPT ![fp] = 0]
            /\ ucall' = H_Call("RecordProcessed", fp, "nil")
       ELSE /\ ucall' = H_Call("RecordProcessed", fp, "error")
            /\ UNCHANGED <<histProcessed, histFailed, ufails>>
    /\ UNCHANGED <<unitFrame, processing, histOpen, histLate>>

\* history.RecordFailed(fp, info), info built as ProcessFile builds it
H_RecordFailed(fp) ==
    /\ ufails[fp] < MaxFailCalls
    /\ IF histOpen
       THEN /\ histFailed' = RecordFailedF(histFailed, fp)
            /\ ufails' = [ufails EXCEPT ![fp] = @ + 1]
            /\ ucall' = H_Call("RecordFailed", fp, "nil")
       ELSE /\ ucall' = H_Call("RecordFailed", fp, "error")
            /\ UNCHANGED <<histFailed, ufails>>
    /\ UNCHANGED <<unitFrame, processing, histProcessed, histOpen, histLate>>

\* history.IsProcessed(fp)
H_IsProcessed(fp) ==
    /\ ucall' = H_Call("IsProcessed", fp,
                       IF histOpen THEN IsProcessed(histProcessed, fp) ELSE "error")
    /\ UNCHANGED <<unitFrame, processing, histVars, ufails>>

\* history.Close()
H_Close ==
    /\ histOpen
    /\ histOpen' = FALSE
    /\ ucall' = H_Call("Close", NoHash, "nil")
    /\ UNCHANGED <<unitFrame, processing, histProcessed, histFailed, histLate, ufails>>

InitHistoryCalls ==
    /\ InitTrackerTable /\ InitHarness
    /\ maxWorkers = 1 /\ optWorkers = 0 /\ InitNoBudget
    /\ numChunks = [p \in Paths |-> 1]
    /\ InitChunks /\ InitWatcher /\ InitWorkers /\ InitOut /\ InitNoCall
    /\ exists = {} /\ markers = [p \in Paths |-> NoMarker]
    /\ histProcessed = {}
    /\ histFailed = [f \in HistKeys |-> -1]
    /\ histOpen = TRUE
    /\ histLate = FALSE

NextHistory ==
    \/ \E fp \in HistKeys : H_RecordProcessed(fp)
    \/ \E fp \in HistKeys : H_RecordFailed(fp)
    \/ \E fp \in HistKeys : H_IsProcessed(fp)
    \/ H_Close

SpecHistory == InitHistoryCalls /\ [][NextHistory]_vars

\* C15: after RecordProcessed(fp) returned without error IsProcessed(fp) is
\* true and the failed bucket has no entry for fp, whatever RecordFailed(fp)
\* calls came before; the call changes no other fingerprint's entry in either
\* bucket
C15_SuccessClearsFailure ==
    /\ [](ucall.op = "RecordProcessed" /\ ucall.ret = "nil" =>
            /\ IsProcessed(histProcessed, ucall.arg)
            /\ histFailed[ucall.arg] = -1)
    /\ [][ucall'.op = "RecordProcessed" =>
            \A g \in HistKeys \ {ucall'.arg} :
               /\ IsProcessed(histProcessed', g) = IsProcessed(histProcessed, g)
               /\ histFailed'[g] = histFailed[g]]_vars

\* RecordProcessed(fp) has just succeeded after two RecordFailed(fp), with
\* other fingerprints recorded as processed and as failed
C15_Witness ==
    /\ ucall.op = "RecordProcessed" /\ ucall.ret = "nil"
    /\ ucall.pre.failed[ucall.arg] = 1
    /\ \E g \in HistKeys \ {ucall.arg} : histFailed[g] # -1
    /\ \E g \in HistKeys \ {ucall.arg} : IsProcessed(histProcessed, g)

T_Call(op, arg, ret) == [op |-> op, arg |-> arg, pre |-> processing, ret |-> ret]

\* tracker.TryLock(p)
S_TryLock(p) ==
    /\ processing' = TryLockTable(processing, p)
    /\ ucall' = T_Call("TryLock", p, TryLockResult(processing, p))
    /\ UNCHANGED <<unitFrame, histVars, ufails>>

\* tracker.Unlock(p)
S_Unlock(p) ==
    /\ processing' = Delete(processing, p)
    /\ ucall' = T_Call("Unlock", p, <<>>)
    /\ UNCHANGED <<unitFrame, histVars, ufails>>

\* time passes between two calls
S_Tick ==
    /\ \E p \in Paths : Exists(processing, p) /\ processing[p] < MaxAge
    /\ processing' = [p \in Paths |->
                        IF Exists(processing, p) /\ processing[p] < MaxAge
                        THEN processing[p] + 1 ELSE processing[p]]
    /\ ucall' = T_Call("Tick", <<>>, <<>>)
    /\ UNCHANGED <<unitFrame, histVars, ufails>>

\* tracker.CleanupStale(timeout)
S_CleanupStale(timeout) ==
    /\ processing' = CleanupStale(processing, timeout)
    /\ ucall' = T_Call("CleanupStale", timeout, CleanupStaleCount(processing, timeout))
    /\ UNCHANGED <<unitFrame, histVars, ufails>>

NextSweep ==
    \/ \E p \in Paths : S_TryLock(p)
    \/ \E p \in Paths : S_Unlock(p)
    \/ S_Tick
    \/ \E timeout \in 0..MaxAge : S_CleanupStale(timeout)

SpecSweep == InitTracker /\ [][NextSweep]_vars

\* C17: CleanupStale(timeout) removes exactly the entries whose age is greater
\* than timeout, leaves every younger entry locked with its age, and returns
\* the number of entries it removed
C17_SweepRemovesExactlyStale ==
    ucall.op = "CleanupStale" =>
       /\ \A p \in Paths :
             IF ucall.pre[p] # NoLock /\ ucall.pre[p] > ucall.arg
             THEN ~IsLocked(processing, p)
             ELSE processing[p] = ucall.pre[p]
       /\ ucall.ret = Cardinality({p \in Paths : ucall.pre[p] # NoLock /\ ucall.pre[p] > ucall.arg})

\* a sweep has removed one entry and left locked one exactly as old as the timeout
C17_Witness ==
    /\ ucall.op = "CleanupStale" /\ ucall.ret = 1
    /\ \E p \in Paths : IsLocked(processing, p) /\ processing[p] = ucall.arg /\ ucall.arg > 0

\* --------------------------------------- SpecChunker: CalculateChunks alone

\* stepSize := chunkDuration - overlapDuration; if stepSize <= 0, chunkDuration / 2
CalcStep(C, O) == IF C - O <= 0 THEN C \div 2 ELSE C - O

\* A chunk end that is not cut at the end of the file.
ChunkEnd_NoClamp(start, C, D) == start + C

\* end := start + chunkDuration; if end > duration { end = duration }
ChunkEnd(start, C, D) == IF start + C > D THEN D ELSE start + C

NewChunkInfo(idx, start, end) ==
    [Index |-> idx, Start |-> start, End |-> end, Duration |-> end - start]

\* `for start := 0; start < duration; start += stepSize`, one iteration and the
\* rest. With a step of 0 and the file not yet covered the next iteration
\* starts from the same values and the loop has no end: the call never returns.
RECURSIVE ChunkLoop(_, _, _, _, _)
ChunkLoop(D, C, step, start, idx) ==
    LET end == ChunkEnd(start, C, D)
        chunk == NewChunkInfo(idx, start, end)
    IN  IF end >= D
        THEN [returns |-> TRUE, chunks |-> <<chunk>>]
        ELSE IF step <= 0
        THEN [returns |-> FALSE, chunks |-> <<chunk>>]
        ELSE IF start + step < D
        THEN LET rest == ChunkLoop(D, C, step, start + step, idx + 1)
             IN  [returns |-> rest.returns, chunks |-> <<chunk>> \o rest.chunks]
        ELSE [returns |-> TRUE, chunks |-> <<chunk>>]

\* chunker.go CalculateChunks(duration, chunkDuration, overlapDuration)
CalculateChunks(D, C, O) ==
    IF D <= C
    THEN [returns |-> TRUE, chunks |-> <<NewChunkInfo(0, 0, D)>>]
    ELSE ChunkLoop(D, C, CalcStep(C, O), 0, 0)

C_CalculateChunks(D, C, O) ==
    /\ ucall' = [op |-> "CalculateChunks", arg |-> <<D, C, O>>, pre |-> <<>>,
                 ret |-> CalculateChunks(D, C, O)]
    /\ UNCHANGED <<unitFrame, processing, histVars, ufails>>

NextChunker == \E D \in 0..MaxDur, C \in 0..MaxDur, O \in 0..MaxDur : C_CalculateChunks(D, C, O)

SpecChunker == InitTracker /\ [][NextChunker]_vars

\* the chunks are numbered 0..n-1 in order
Sequential(ch) == \A i \in 1..Len(ch) : ch[i].Index = i - 1

\* the first chunk starts at 0 and each next one no later than the end of the
\* one before it
Gapless(ch) ==
    /\ ch[1].Start = 0
    /\ \A i \in 1..(Len(ch) - 1) : ch[i + 1].Start <= ch[i].End

\* C18: for 0 <= O < C <= D, CalculateChunks(D, C, O) returns chunks with
\* indices 0..n-1 in order, the first starting at 0, each with End > Start and
\* Duration = End - Start, each next chunk starting no later than the end of
\* the one before it, and the last chunk ending exactly at D
C18_PlanCoversFile ==
    ucall.op = "CalculateChunks" =>
       LET D == ucall.arg[1]
           C == ucall.arg[2]
           O == ucall.arg[3]
           ch == ucall.ret.chunks
       IN  0 <= O /\ O < C /\ C <= D =>
              /\ ucall.ret.returns
              /\ Len(ch) >= 1
              /\ Sequential(ch)
              /\ Gapless(ch)
              /\ \A i \in 1..Len(ch) : ch[i].End > ch[i].Start
                                       /\ ch[i].Duration = ch[i].End - ch[i].Start
              /\ ch[Len(ch)].End = D

\* a plan of three or more overlapping chunks whose last chunk is cut short at
\* the end of the file
C18_Witness ==
    /\ ucall.op = "CalculateChunks"
    /\ 0 < ucall.arg[3] /\ ucall.arg[3] < ucall.arg[2] /\ ucall.arg[2] <= ucall.arg[1]
    /\ Len(ucall.ret.chunks) >= 3
    /\ ucall.ret.chunks[Len(ucall.ret.chunks)].Duration < ucall.arg[2]

\* C19: for O >= C and D > C, CalculateChunks steps by C/2: it returns chunks
\* whose starts are C/2 apart, gapless over [0, D), with sequential indices and
\* the last chunk ending exactly at D
C19_FallbackStepCoversFile ==
    ucall.op = "CalculateChunks" =>
       LET D == ucall.arg[1]
           C == ucall.arg[2]
           O == ucall.arg[3]
           ch == ucall.ret.chunks
       IN  O >= C /\ D > C =>
              /\ ucall.ret.returns
              /\ \A i \in 1..(Len(ch) - 1) : ch[i + 1].Start - ch[i].Start = C \div 2
              /\ Sequential(ch)
              /\ Gapless(ch)
              /\ ch[Len(ch)].End = D

\* ------------------------------------------------ C20: transcribeChunks

\* the step in which transcribeChunks of worker w's pipeline returns
ChunksReturn(w) == wpc[w] = "chunks" /\ wpc'[w] = "defer"

\* the step in which the goroutine of chunk i ends
ChunkEnds(w, i) == chG[w][i] # "done" /\ chG'[w][i] = "done"

\* C20: transcribeChunks returns only after every chunk's goroutine, and with
\* it its provider call, has finished; if any chunk failed it returns the
\* first error recorded and no results (the file ends as failed); a failing
\* chunk leaves the other chunks waiting or in their calls, and they all run
C20_AllChunksAwaited ==
    [][\A w \in WorkerIds :
         /\ ChunksReturn(w) =>
               /\ \A i \in 1..chN[w] : chG[w][i] = "done"
               /\ chCompleted[w] = chN[w]
               /\ Cardinality(chResults[w]) < chN[w] => chFirstErr[w] # 0
               /\ chFirstErr[w] # 0 =>
                     /\ chFirstErr[w] \notin chResults[w]
                     /\ wout'[w] = "failed"
         /\ \A i \in ChunkIds :
               ChunkEnds(w, i) =>
                  /\ \A j \in ChunkIds \ {i} : chG'[w][j] = chG[w][j]
                  /\ chFirstErr'[w] = IF i \notin chResults'[w] /\ chFirstErr[w] = 0
                                      THEN i ELSE chFirstErr[w]]_vars

\* transcribeChunks has returned the error of a call of three or more chunks
\* of which two failed
C20_Witness ==
    /\ wpc[1] = "defer" /\ wout[1] = "failed"
    /\ numChunks["a.mp3"] >= 3
    /\ failBudget = 0

\* ------------------------------------------- SpecMerger: MergeChunks alone

\* a nil *providers.TranscriptionResult
NilChunk ==
    [isNil |-> TRUE, Text |-> <<>>, Segments |-> <<>>, Language |-> "", Duration |-> 0,
     ChunkID |-> 0, Metadata |-> [k \in {} |-> ""]]

\* providers.TranscriptionResult values: Text is the sequence of its words
\* (texts are shorter than 100 characters), Segments carry Start and End
ChunkValues ==
    {[isNil |-> FALSE, Text |-> t, Segments |-> sg,
      Language |-> IF md THEN "en" ELSE "",
      Duration |-> IF sg = <<>> THEN 0 ELSE sg[Len(sg)].End,
      ChunkID |-> id,
      Metadata |-> IF md THEN [k \in {"model"} |-> "m"] ELSE [k \in {} |-> ""]] :
        t \in {<<>>, <<"the", "budget">>, <<"budget", "next">>},
        sg \in {<<>>, <<[Start |-> 0, End |-> 4], [Start |-> 4, End |-> 9]>>,
                <<[Start |-> 5, End |-> 10], [Start |-> 10, End |-> 14]>>},
        id \in 0..1, md \in BOOLEAN}

\* sort.Slice on fewer than 12 elements is an insertion sort: elements with
\* equal keys keep their order
SortedBy(s, field) ==
    LET Rank(i) == Cardinality({j \in 1..Len(s) :
                      \/ s[j][field] < s[i][field]
                      \/ s[j][field] = s[i][field] /\ j < i}) + 1
    IN  [k \in 1..Len(s) |-> s[CHOOSE i \in 1..Len(s) : Rank(i) = k]]

\* merger.go segmentsOverlap
segmentsOverlap(seg1, seg2) == seg1.End > seg2.Start /\ seg2.End > seg1.Start

\* merger.go calculateTextSimilarity(text1, text2) > 0.3: the fraction of the
\* words of text2 that occur in text1
Similar(text1, text2) ==
    /\ text1 # <<>> /\ text2 # <<>>
    /\ 10 * Cardinality({k \in 1..Len(text2) : \E j \in 1..Len(text1) : text1[j] = text2[k]})
          > 3 * Len(text2)

\* merger.go DetectOverlap: <<overlapStart, overlapEnd>>, from the first
\* intersecting pair met going backwards through chunk1's segments and
\* forwards through chunk2's
DetectOverlap(chunk1, chunk2) ==
    LET s1 == chunk1.Segments
        s2 == chunk2.Segments
        Hits == {ij \in (1..Len(s1)) \X (1..Len(s2)) : segmentsOverlap(s1[ij[1]], s2[ij[2]])}
    IN  IF Len(s1) = 0 \/ Len(s2) = 0 \/ ~Similar(chunk1.Text, chunk2.Text) \/ Hits = {}
        THEN <<0, 0>>
        ELSE LET i == CHOOSE i \in 1..Len(s1) :
                         /\ \E ij \in Hits : ij[1] = i
                         /\ \A ij \in Hits : ij[1] <= i
                 j == CHOOSE j \in 1..Len(s2) :
                         /\ <<i, j>> \in Hits
                         /\ \A ij \in Hits : ij[1] = i => j <= ij[2]
             IN  <<s1[i].Start, s2[j].End>>

\* A merge that drops an existing segment ending exactly at the overlap start.
mergeOverlappingSegments_StrictEnd(existing, new, overlapStart, overlapEnd) ==
    SortedBy(SelectSeq(existing, LAMBDA seg : seg.End < overlapStart)
             \o SelectSeq(new, LAMBDA seg : seg.Start >= overlapEnd), "Start")

\* merger.go mergeOverlappingSegments
mergeOverlappingSegments(existing, new, overlapStart, overlapEnd) ==
    SortedBy(SelectSeq(existing, LAMBDA seg : seg.End <= overlapStart)
             \o SelectSeq(new, LAMBDA seg : seg.Start >= overlapEnd), "Start")

\* merger.go mergeWithOverlap, the loop from chunk i on: acc holds
\* allSegments, fullText and totalDuration
RECURSIVE FoldChunks(_, _, _)
FoldChunks(chunks, i, acc) ==
    IF i > Len(chunks) THEN acc
    ELSE LET cur == chunks[i]
             ov == DetectOverlap(chunks[i - 1], cur)
             segs == IF ov[2] > ov[1] /\ ov[2] - ov[1] > OverlapThreshold
                     THEN mergeOverlappingSegments(acc.Segments, cur.Segments, ov[1], ov[2])
                     ELSE acc.Segments \o cur.Segments
             lastEnd == IF cur.Segments = <<>> THEN 0 ELSE cur.Segments[Len(cur.Segments)].End
         IN  FoldChunks(chunks, i + 1,
                        [Segments |-> segs,
                         Text |-> acc.Text \o cur.Text,
                         Duration |-> IF lastEnd > acc.Duration THEN lastEnd ELSE acc.Duration])

\* the Language and the Metadata of the merged result: a later chunk's
\* non-empty language and metadata entries replace an earlier chunk's
RECURSIVE FoldMeta(_, _, _)
FoldMeta(chunks, i, acc) ==
    IF i > Len(chunks) THEN acc
    ELSE FoldMeta(chunks, i + 1,
                  [Language |-> IF chunks[i].Language # "" THEN chunks[i].Language
                                ELSE acc.Language,
                   Metadata |-> chunks[i].Metadata @@ acc.Metadata])

\* merger.go mergeWithOverlap
mergeWithOverlap(chunks) ==
    LET first == chunks[1]
        body == FoldChunks(chunks, 2,
                           [Segments |-> first.Segments, Text |-> first.Text,
                            Duration |-> IF first.Segments = <<>> THEN 0
                                         ELSE first.Segments[Len(first.Segments)].End])
        meta == FoldMeta(chunks, 1, [Language |-> "", Metadata |-> [k \in {} |-> ""]])
    IN  [isNil |-> FALSE, Text |-> body.Text, Segments |-> body.Segments,
         Language |-> meta.Language, Duration |-> body.Duration,
         Metadata |-> [k \in {"merged_chunks"} |-> Len(chunks)]
                      @@ [k \in {"merge_method"} |-> "overlap_detection"]
                      @@ meta.Metadata]

\* merger.go convertToTranscribeResult
convertToTranscribeResult(chunk) ==
    [isNil |-> FALSE, Text |-> chunk.Text, Segments |-> chunk.Segments,
     Language |-> chunk.Language, Duration |-> chunk.Duration, Metadata |-> chunk.Metadata]

\* A filter that only drops the nil entries.
IsValidChunk_NonNil(c) == ~c.isNil

\* MergeChunks: `chunk != nil && chunk.Text != ""`
IsValidChunk(c) == ~c.isNil /\ c.Text # <<>>

\* a nil *TranscribeResult
NilResult ==
    [isNil |-> TRUE, Text |-> <<>>, Segments |-> <<>>, Language |-> "", Duration |-> 0,
     Metadata |-> [k \in {} |-> ""]]

\* merger.go MergeChunks: what it returns, or that it panics. The comparison
\* function of the sort reads chunks[i].ChunkID of every element of a list of
\* two or more: a nil element is a nil pointer dereference.
MergeChunks(chunks) ==
    IF Len(chunks) = 0
    THEN [panics |-> FALSE, result |-> NilResult, err |-> "no chunks to merge"]
    ELSE IF Len(chunks) >= 2 /\ \E i \in 1..Len(chunks) : chunks[i].isNil
    THEN [panics |-> TRUE, result |-> NilResult, err |-> ""]
    ELSE LET validChunks == SelectSeq(SortedBy(chunks, "ChunkID"), IsValidChunk)
         IN  IF Len(validChunks) = 0
             THEN [panics |-> FALSE, result |-> NilResult, err |-> "no valid chunks to merge"]
             ELSE IF Len(validChunks) = 1
             THEN [panics |-> FALSE, result |-> convertToTranscribeResult(validChunks[1]),
                   err |-> ""]
             ELSE [panics |-> FALSE, result |-> mergeWithOverlap(validChunks), err |-> ""]

RECURSIVE ListsUpTo(_, _)
ListsUpTo(S, n) ==
    IF n = 0 THEN {<<>>}
    ELSE ListsUpTo(S, n - 1) \cup {Append(l, x) : l \in {m \in ListsUpTo(S, n - 1) : Len(m) = n - 1}, x \in S}

\* one call of MergeChunks
M_MergeChunks(chunks) ==
    /\ ucall' = [op |-> "MergeChunks", arg |-> chunks, pre |-> <<>>, ret |-> MergeChunks(chunks)]
    /\ UNCHANGED <<unitFrame, processing, histVars, ufails>>

\* a run makes one call
NextMerger ==
    /\ ucall = NoCall
    /\ \E chunks \in ListsUpTo(ChunkValues \cup {NilChunk}, MaxMergeLen) : M_MergeChunks(chunks)

SpecMerger == InitTracker /\ [][NextMerger]_vars

\* the valid entries of the list passed to MergeChunks
ValidArgs == SelectSeq(ucall.arg, LAMBDA c : ~c.isNil /\ c.Text # <<>>)

\* C21: MergeChunks on a list with exactly one valid (non-nil, non-empty-text)
\* entry returns that chunk unmodified: the same text, segments, language,
\* duration and metadata, and no merge metadata
C21_SingleChunkUnmodified ==
    ucall.op = "MergeChunks" /\ Len(ValidArgs) = 1 =>
       /\ ~ucall.ret.panics
       /\ ucall.ret.err = ""
       /\ ucall.ret.result = convertToTranscribeResult(ValidArgs[1])
       /\ DOMAIN ucall.ret.result.Metadata = DOMAIN ValidArgs[1].Metadata

\* C22: MergeChunks on an empty list, or on a list in which every entry has
\* empty text, returns no result and fails with a "no valid chunks" error
C22_NoValidChunksError ==
    ucall.op = "MergeChunks"
        /\ (\A i \in 1..Len(ucall.arg) : ~ucall.arg[i].isNil /\ ucall.arg[i].Text = <<>>) =>
       /\ ~ucall.ret.panics
       /\ ucall.ret.result.isNil
       /\ ucall.ret.err = "no valid chunks to merge"

\* C22 as amended: the empty list fails with "no chunks to merge", a non-empty
\* list in which every entry has empty text fails with "no valid chunks to
\* merge"; neither returns a result
C22_EmptyAndAllEmptyFail ==
    ucall.op = "MergeChunks"
        /\ (\A i \in 1..Len(ucall.arg) : ~ucall.arg[i].isNil /\ ucall.arg[i].Text = <<>>) =>
       /\ ~ucall.ret.panics
       /\ ucall.ret.result.isNil
       /\ ucall.ret.err = IF ucall.arg = <<>> THEN "no chunks to merge"
                          ELSE "no valid chunks to merge"

\* a list of two different chunks with empty text was refused
C22_Witness ==
    /\ ucall.op = "MergeChunks"
    /\ Len(ucall.arg) = 2 /\ ucall.arg[1] # ucall.arg[2]
    /\ \A i \in 1..2 : ~ucall.arg[i].isNil /\ ucall.arg[i].Text = <<>>
    /\ ucall.ret.err = "no valid chunks to merge"

\* -------------------- SpecStats: the counters of the watcher and GetStats

\* tracker.GetLocked: the paths of the lock table
GetLocked(tbl) == {p \in Paths : Exists(tbl, p)}

\* GetStats: under statsLock (no counter moves meanwhile), a copy of the
\* counters with InProgress = len(tracker.GetLocked())
GetStats ==
    /\ ~crashed
    /\ ucall = NoCall
    /\ ucall' = [op |-> "GetStats", arg |-> <<>>, pre |-> stats,
                 ret |-> [ProcessedCount |-> stats.ProcessedCount,
                          FailedCount |-> stats.FailedCount,
                          SkippedCount |-> stats.SkippedCount,
                          InProgress |-> Cardinality(GetLocked(processing))]]
    /\ emitted' = <<>>
    /\ UNCHANGED <<trackerVars, harnessVars, maxWorkers, optWorkers, numChunks, ufails, unitVars,
                   budgetVars, chunkVars, fsVars, histVars, chanVars, queueVars, initialVars,
                   eventVars, mainVars, watchVars, cleanupPc, workerVars, doneCount, stats>>

\* Two files of the same content wait in the directory at Start; the
\* transcription may fail once.
InitStats ==
    /\ InitTrackerTable /\ InitHarness
    /\ maxWorkers \in MaxWorkersChoices
    /\ optWorkers = 1
    /\ numChunks = [p \in Paths |-> 1]
    /\ failBudget = MaxFailures
    /\ scanBudget = MaxScans
    /\ eventBudget = 0
    /\ deleteBudget = 0
    /\ InitChunks /\ InitHistory /\ InitWatcher /\ InitWorkers /\ InitOut /\ InitNoCall
    /\ exists = Paths
    /\ markers = [p \in Paths |-> NoMarker]

NextStats ==
    \/ Start
    \/ ScanFile
    \/ StartWatchLoop
    \/ WL_Tick
    \/ WL_ScanFile
    \/ \E w \in WorkerIds : PW_Receive(w)
    \/ \E w \in WorkerIds : PF_Enter(w)
    \/ \E w \in WorkerIds : PF_Hash(w)
    \/ \E w \in WorkerIds, i \in ChunkIds : G_Acquire(w, i)
    \/ \E w \in WorkerIds, i \in ChunkIds : G_ProviderReturn(w, i)
    \/ \E w \in WorkerIds : PF_Return(w)
    \/ \E w \in WorkerIds : PF_RemoveMarker(w)
    \/ \E w \in WorkerIds : PF_Unlock(w)
    \/ GetStats

SpecStats == InitStats /\ [][NextStats]_vars

\* the events of one type among those of a step
Occurs(evs, type) == Cardinality({k \in 1..Len(evs) : evs[k].type = type})

\* C23: in every step each of ProcessedCount, FailedCount and SkippedCount goes
\* up by exactly the number of 'completed', 'failed' and 'skipped' events the
\* step emits (so, starting from zero, they equal the events emitted so far and
\* never decrease; followed up to MaxCount), and a GetStats call returns the counters as they are with
\* InProgress = the number of paths locked.
C23_CountersMatchEvents ==
    [][/\ stats.ProcessedCount < MaxCount =>
             stats'.ProcessedCount = stats.ProcessedCount + Occurs(emitted', "completed")
       /\ stats.FailedCount < MaxCount =>
             stats'.FailedCount = stats.FailedCount + Occurs(emitted', "failed")
       /\ stats.SkippedCount < MaxCount =>
             stats'.SkippedCount = stats.SkippedCount + Occurs(emitted', "skipped")
       /\ stats'.ProcessedCount >= stats.ProcessedCount
       /\ stats'.FailedCount >= stats.FailedCount
       /\ stats'.SkippedCount >= stats.SkippedCount
       /\ (ucall' # ucall /\ ucall'.op = "GetStats") =>
             /\ ucall'.ret.ProcessedCount = stats'.ProcessedCount
             /\ ucall'.ret.FailedCount = stats'.FailedCount
             /\ ucall'.ret.SkippedCount = stats'.SkippedCount
             /\ ucall'.ret.InProgress =
                  Cardinality({p \in Paths : IsLocked(processing', p)})]_vars

\* GetStats has returned while a path was locked and after a 'completed', a
\* 'failed' and a 'skipped' event
C23_Witness ==
    /\ ucall.op = "GetStats"
    /\ ucall.ret.ProcessedCount >= 1
    /\ ucall.ret.FailedCount >= 1
    /\ ucall.ret.SkippedCount >= 1
    /\ ucall.ret.InProgress >= 1

\* ---------------------------------------------- one transcription per path

\* the worker is inside Transcribe (its chunk goroutines set up, not yet joined)
Transcribing(w) == wpc[w] = "chunks"

\* C24: no two workers are transcribing the same path at the same time.
C24_OneTranscriptionPerPath ==
    \A w1 \in WorkerIds, w2 \in WorkerIds :
        (w1 # w2 /\ Transcribing(w1) /\ Transcribing(w2)) => wpath[w1] # wpath[w2]

\* C25: no path is ever sent on the worker queue after Stop has closed it: the
\* panic of a send on the closed channel never happens.
C25_NoSendOnClosedQueue == ~crashed

\* ------------- SpecTemp: the temp files of two Transcribe calls in flight

\* the last clock second of a run
MaxSecond == 1
\* chunks per file at most
MaxTempChunks == 2

\* two ProcessFile workers inside Transcribe, on two different input files;
\* one TranscriberImpl, so one tempDir
Invocations == {1, 2}

\* tempDir/gollmscribe_chunks_<sec>/chunk_<i>.mp3
ChunkPath(sec, i) == <<"chunk", sec, i>>
\* tempDir/audio_<sec>.mp3
AudioPath(sec) == <<"audio", sec, 0>>
NoTempPath == <<"none", 0, 0>>

TempPaths ==
    {ChunkPath(sec, i) : sec \in 0..MaxSecond, i \in 0..(MaxTempChunks - 1)}
        \cup {AudioPath(sec) : sec \in 0..MaxSecond}

\* no file at the path
NoFile == 0

\* the chunk files ChunkAudio has created for the invocation so far
ChunkFiles(iv) == {ChunkPath(iv.dir, i) : i \in 0..(iv.made - 1)}

\* every temp file of the invocation: its chunk files and its converted audio
TempFiles(iv) == ChunkFiles(iv) \cup (IF iv.audio = NoTempPath THEN {} ELSE {iv.audio})

InTranscribe(iv) == iv.pc \notin {"start", "done"}

\* everything but the temp directory
notTemp == <<trackerVars, harnessVars, maxWorkers, optWorkers, numChunks, ucall, ufails, tc,
             budgetVars, chunkVars, fsVars, histVars, chanVars, queueVars, initialVars,
             eventVars, mainVars, watchVars, cleanupPc, workerVars, outVars>>

\* a step of invocation k: its position and the files of the temp directory
TmpStep(k, iv, files) ==
    /\ tmp' = [tmp EXCEPT !.inv[k] = iv, !.files = files]
    /\ UNCHANGED notTemp

\* TranscribeWithProgress up to createChunks: a video is converted first, to
\* audio_<time.Now().Unix()>.mp3 (ffmpeg overwrites its output)
TA_Begin(k) ==
    LET iv == tmp.inv[k] IN
    /\ iv.pc = "start"
    /\ IF iv.video
       THEN TmpStep(k, [iv EXCEPT !.pc = "chunk", !.audio = AudioPath(tmp.now)],
                    [tmp.files EXCEPT ![AudioPath(tmp.now)] = k])
       ELSE TmpStep(k, [iv EXCEPT !.pc = "chunk"], tmp.files)

\* ChunkAudio: chunkDir = gollmscribe_chunks_<time.Now().Unix()>, MkdirAll
TA_ChunkDir(k) ==
    LET iv == tmp.inv[k] IN
    /\ iv.pc = "chunk"
    /\ TmpStep(k, [iv EXCEPT !.pc = "create", !.dir = tmp.now], tmp.files)

\* ChunkAudio: CreateChunk writes chunk_<i>.mp3 (ffmpeg overwrites its output)
TA_CreateChunk(k) ==
    LET iv == tmp.inv[k] IN
    /\ iv.pc = "create"
    /\ IF iv.made < iv.n
       THEN TmpStep(k, [iv EXCEPT !.made = @ + 1],
                    [tmp.files EXCEPT ![ChunkPath(iv.dir, iv.made)] = k])
       ELSE TmpStep(k, [iv EXCEPT !.pc = "transcribe"], tmp.files)

\* transcribeChunk: OpenAudio(chunk.TempFilePath), the audio sent to the provider
TA_ReadChunk(k, i) ==
    LET iv == tmp.inv[k] IN
    /\ iv.pc = "transcribe"
    /\ i < iv.n
    /\ i \notin iv.sent
    /\ TmpStep(k, [iv EXCEPT !.sent = @ \cup {i},
                             !.heard = @ \cup {tmp.files[ChunkPath(iv.dir, i)]}],
               tmp.files)

\* Transcribe returns: the deferred CleanupChunks removes every chunk file of
\* the list, then the deferred os.Remove takes the converted audio
TA_Return(k) ==
    LET iv == tmp.inv[k] IN
    /\ iv.pc = "transcribe"
    /\ iv.sent = 0..(iv.n - 1)
    /\ TmpStep(k, [iv EXCEPT !.pc = "done"],
               [q \in TempPaths |-> IF q \in TempFiles(iv) THEN NoFile ELSE tmp.files[q]])

\* the clock reaches the next second
TA_Second ==
    /\ tmp.now < MaxSecond
    /\ tmp' = [tmp EXCEPT !.now = @ + 1]
    /\ UNCHANGED notTemp

InitTemp ==
    /\ InitTrackerTable /\ InitHarness
    /\ maxWorkers = 2
    /\ optWorkers = 1
    /\ numChunks = [p \in Paths |-> 1]
    /\ InitNoBudget
    /\ InitChunks /\ InitHistory /\ InitWatcher /\ InitWorkers /\ InitOut
    /\ exists = Paths
    /\ markers = [p \in Paths |-> NoMarker]
    /\ ucall = NoCall
    /\ ufails = [f \in HistKeys |-> 0]
    /\ tc = NoChunksCall
    /\ \E n \in [Invocations -> 1..MaxTempChunks], video \in [Invocations -> BOOLEAN] :
         tmp = [now |-> 0,
                files |-> [q \in TempPaths |-> NoFile],
                inv |-> [k \in Invocations |->
                           [pc |-> "start", video |-> video[k], n |-> n[k], dir |-> 0,
                            made |-> 0, audio |-> NoTempPath, sent |-> {}, heard |-> {}]]]

NextTemp ==
    \/ \E k \in Invocations : TA_Begin(k)
    \/ \E k \in Invocations : TA_ChunkDir(k)
    \/ \E k \in Invocations : TA_CreateChunk(k)
    \/ \E k \in Invocations, i \in 0..(MaxTempChunks - 1) : TA_ReadChunk(k, i)
    \/ \E k \in Invocations : TA_Return(k)
    \/ TA_Second

SpecTemp == InitTemp /\ [][NextTemp]_vars

\* C26: the temp files of two Transcribe invocations in flight at the same
\* time are disjoint, and what an invocation sends to the provider is the
\* content it wrote itself.
C26_TempFilesDisjoint ==
    /\ \A j \in Invocations, k \in Invocations :
          (j # k /\ InTranscribe(tmp.inv[j]) /\ InTranscribe(tmp.inv[k])) =>
             TempFiles(tmp.inv[j]) \cap TempFiles(tmp.inv[k]) = {}
    /\ \A k \in Invocations : tmp.inv[k].heard \subseteq {k}

\* ------------------------- SpecRestart: Start after a crash, then left running

\* watchLoop: ticker.C fires (every Interval, as long as the watcher runs); periodicScan
WL_Rescan ==
    /\ ~crashed
    /\ watchPc = "loop"
    /\ watchRem' = Walk(exists)
    /\ watchPc' = IF Walk(exists) = <<>> THEN "loop" ELSE "scan"
    /\ emitted' = <<>>
    /\ UNCHANGED <<notWatcher, wown, trackerVars, budgetVars, fsVars, histOpen,
                   chanVars, queueVars, initialVars, eventVars, mainVars, watchPath,
                   cleanupPc, wpc>>

\* The run before crashed inside ProcessFile(a.mp3): a.mp3 and its marker,
\* of any age, are in the directory; the history has no record of it.
InitRestart ==
    /\ InitTrackerTable /\ InitHarness
    /\ maxWorkers \in MaxWorkersChoices
    /\ optWorkers = 1
    /\ numChunks = [p \in Paths |-> 1]
    /\ InitNoBudget
    /\ InitChunks /\ InitHistory /\ InitWatcher /\ InitWorkers /\ InitOut /\ InitNoCall
    /\ exists = {"a.mp3"}
    /\ markers \in {[p \in Paths |-> IF p = "a.mp3" THEN age ELSE NoMarker] : age \in 0..MaxAge}

\* the main goroutine: Start up to the launch of the watch loop
MainRestart ==
    \/ Start
    \/ ScanFile
    \/ StartWatchLoop

\* the watch loop
WatchRestart ==
    \/ WL_Rescan
    \/ WL_ScanFile

\* a worker
WorkerRestart(w) ==
    \/ PW_Receive(w)
    \/ PF_Enter(w)
    \/ PF_Hash(w)
    \/ \E i \in ChunkIds : G_Acquire(w, i)
    \/ \E i \in ChunkIds : G_ProviderReturn(w, i)
    \/ PF_Return(w)
    \/ PF_RemoveMarker(w)
    \/ PF_Unlock(w)

NextRestart ==
    \/ MainRestart
    \/ WatchRestart
    \/ \E w \in WorkerIds : WorkerRestart(w)

\* the Go scheduler runs every goroutine that can take a step, and the
\* ticker keeps firing
SpecRestart ==
    /\ InitRestart /\ [][NextRestart]_vars
    /\ WF_vars(MainRestart)
    /\ WF_vars(WatchRestart)
    /\ \A w \in WorkerIds : WF_vars(WorkerRestart(w))

\* C27: after the restart the file the crash interrupted is eventually
\* processed again (its transcription completes), whatever the age of the
\* marker the crash left.
C27_CrashedFileReprocessed == <>(doneCount[getFileHash(FileOf("a.mp3"))] >= 1)

\* ---------------- SpecRescan: a file whose event was missed, the ticker firing

\* a file is dropped into the watched directory and fsnotify misses it
FileDropMissed(p) ==
    /\ ~crashed
    /\ mainPc = "running"
    /\ p \notin exists
    /\ exists' = exists \cup {p}
    /\ emitted' = <<>>
    /\ UNCHANGED <<notWatcher, wown, trackerVars, budgetVars, markers, histOpen,
                   chanVars, queueVars, initialVars, eventVars, mainVars, watchVars,
                   cleanupPc, wpc>>

\* a.mp3 waits in the directory at Start; one worker; nothing fails
InitRescan ==
    /\ InitTrackerTable /\ InitHarness
    /\ maxWorkers = 1
    /\ optWorkers = 1
    /\ numChunks = [p \in Paths |-> 1]
    /\ InitNoBudget
    /\ InitChunks /\ InitHistory /\ InitWatcher /\ InitWorkers /\ InitOut /\ InitNoCall
    /\ exists = {"a.mp3"}
    /\ markers = [p \in Paths |-> NoMarker]

NextRescan ==
    \/ MainRestart
    \/ WatchRestart
    \/ \E w \in WorkerIds : WorkerRestart(w)
    \/ FileDropMissed("b.mp3")

\* the Go scheduler runs every goroutine that can take a step, and the
\* ticker keeps firing
SpecRescan ==
    /\ InitRescan /\ [][NextRescan]_vars
    /\ WF_vars(MainRestart)
    /\ WF_vars(WatchRestart)
    /\ \A w \in WorkerIds : WF_vars(WorkerRestart(w))

\* a worker has dequeued p and is entering ProcessFile(p)
HandedToProcessFile(p) == \E w \in WorkerIds : wpath[w] = p /\ wpc[w] = "enter"

\* C28: every file in the watched directory is eventually dequeued by a
\* worker and handed to ProcessFile.
C28_EveryFileEventuallyHanded ==
    \A p \in Paths : (<>(p \in exists)) => <>HandedToProcessFile(p)

\* ---------------------------------------------- the two history namespaces

\* C29: no fingerprint has a record in the processed bucket and a record in
\* the failed bucket at the same time.
C29_ProcessedAndFailedDisjoint ==
    \A fp \in DOMAIN histFailed : ~(fp \in histProcessed /\ histFailed[fp] # -1)

\* ------------------------------------------- chunk planning comes to an end

\* C30: chunk planning terminates for every duration, chunk duration and
\* overlap: every CalculateChunks call returns (a finite chunk list).
C30_PlanningTerminates == ucall.op = "CalculateChunks" => ucall.ret.returns

\* ------------------------------------------ MergeChunks and its nil entries

\* the list passed to MergeChunks with its nil entries removed
NonNilArgs == SelectSeq(ucall.arg, LAMBDA c : ~c.isNil)

\* C31: for a list that contains nil entries together with at least one valid
\* chunk, MergeChunks returns, without failing, the same result as for the
\* list with the nil entries removed.
C31_NilEntriesDropped ==
    (/\ ucall.op = "MergeChunks"
     /\ \E i \in 1..Len(ucall.arg) : ucall.arg[i].isNil
     /\ Len(ValidArgs) >= 1) =>
       /\ ~ucall.ret.panics
       /\ ucall.ret.err = ""
       /\ ucall.ret.result = MergeChunks(NonNilArgs).result

\* ----------- SpecProgress: one transcribeChunks call with a progress callback

\* len(chunks) of the call is at most MaxCbChunks
MaxCbChunks == 3

\* the indices of the chunks of the call
CbIds == 0..(tc.n - 1)

\* chunk i starts at i * step (a plan of CalculateChunks with step 3)
ChunkStartOf(i) == i * 3

\* what the provider may return for a chunk: segments relative to the chunk
RawSegments == {<<>>, <<[Start |-> 0, End |-> 2], [Start |-> 2, End |-> 4]>>}

\* A transcribeChunk that leaves the provider's timestamps as they are.
AdjustTimestamps_NoOffset(segs, start) == segs

\* transcribeChunk: Start and End of every segment += chunk.Start
AdjustTimestamps(segs, start) ==
    [k \in 1..Len(segs) |-> [Start |-> segs[k].Start + start, End |-> segs[k].End + start]]

\* results[i] == nil
NoResult == [isNil |-> TRUE]

\* no goroutine holds mu
NoHolder == -1

\* A mu.Lock() that does not wait.
MuFree_NoMutex == TRUE

\* mu.Lock() can return: mu is unlocked
MuFree == tc.mu = NoHolder

\* semaphore := make(chan struct{}, workers), workers = 3 when Options.Workers <= 0
CbSemSize == IF tc.workers <= 0 THEN DefaultChunkWorkers ELSE tc.workers

\* everything but the transcribeChunks call
notChunksCall == <<trackerVars, harnessVars, maxWorkers, optWorkers, numChunks, ucall, ufails,
                   tmp, budgetVars, chunkVars, fsVars, histVars, chanVars, queueVars,
                   initialVars, eventVars, mainVars, watchVars, cleanupPc, workerVars, outVars>>

\* goroutine i: semaphore <- struct{}{}
TC_Acquire(i) ==
    /\ i \in CbIds
    /\ tc.pc[i] = "wait"
    /\ tc.sem < CbSemSize
    /\ tc' = [tc EXCEPT !.pc[i] = "call", !.sem = @ + 1]
    /\ UNCHANGED notChunksCall

\* goroutine i: transcribeChunk returns an error, or the provider's result
\* with its timestamps moved by chunk.Start
TC_TranscribeChunk(i) ==
    /\ i \in CbIds
    /\ tc.pc[i] = "call"
    /\ \/ tc' = [tc EXCEPT !.pc[i] = "got", !.got[i] = [err |-> TRUE, Segments |-> <<>>]]
       \/ \E raw \in RawSegments :
             tc' = [tc EXCEPT !.pc[i] = "got", !.raw[i] = raw,
                              !.got[i] = [err |-> FALSE,
                                          Segments |-> AdjustTimestamps(raw, ChunkStartOf(i))]]
    /\ UNCHANGED notChunksCall

\* goroutine i: mu.Lock()
TC_Lock(i) ==
    /\ i \in CbIds
    /\ tc.pc[i] = "got"
    /\ MuFree
    /\ tc' = [tc EXCEPT !.pc[i] = "locked", !.mu = i]
    /\ UNCHANGED notChunksCall

\* goroutine i under mu: firstErr or results[index], completed++, and the
\* callback called with (completed, len(chunks), "Chunk <index+1>")
TC_Record(i) ==
    /\ i \in CbIds
    /\ tc.pc[i] = "locked"
    /\ tc' = [tc EXCEPT
                !.pc[i] = "callback",
                !.firstErr = IF tc.got[i].err /\ @ = NoHolder THEN i ELSE @,
                !.results[i] = IF tc.got[i].err THEN @
                               ELSE [isNil |-> FALSE, ChunkID |-> i,
                                     Segments |-> tc.got[i].Segments],
                !.completed = @ + 1,
                !.calls = Append(@, [completed |-> tc.completed + 1, total |-> tc.n,
                                     label |-> i + 1]),
                !.inCb = @ \cup {i}]
    /\ UNCHANGED notChunksCall

\* goroutine i: the callback returns; mu.Unlock(), <-semaphore, wg.Done()
TC_Unlock(i) ==
    /\ i \in CbIds
    /\ tc.pc[i] = "callback"
    /\ tc' = [tc EXCEPT !.pc[i] = "done", !.inCb = @ \ {i}, !.mu = NoHolder, !.sem = @ - 1]
    /\ UNCHANGED notChunksCall

\* wg.Wait() returns: (nil, firstErr) or (results, nil)
TC_Return ==
    /\ tc.returned = "no"
    /\ \A i \in CbIds : tc.pc[i] = "done"
    /\ tc' = [tc EXCEPT !.returned = IF tc.firstErr # NoHolder THEN "err" ELSE "ok"]
    /\ UNCHANGED notChunksCall

InitProgress ==
    /\ InitTrackerTable /\ InitHarness
    /\ maxWorkers = 1 /\ optWorkers = 0 /\ InitNoBudget
    /\ numChunks = [p \in Paths |-> 1]
    /\ InitChunks /\ InitHistory /\ InitWatcher /\ InitWorkers /\ InitOut
    /\ exists = {} /\ markers = [p \in Paths |-> NoMarker]
    /\ ucall = NoCall
    /\ ufails = [f \in HistKeys |-> 0]
    /\ tmp = NoTemp
    /\ \E n \in 1..MaxCbChunks, workers \in {0, 1, 2} :
         tc = [n |-> n, workers |-> workers,
               pc |-> [i \in 0..(n - 1) |-> "wait"],
               sem |-> 0, mu |-> NoHolder, firstErr |-> NoHolder, completed |-> 0,
               results |-> [i \in 0..(n - 1) |-> NoResult],
               raw |-> [i \in 0..(n - 1) |-> <<>>],
               got |-> [i \in 0..(n - 1) |-> [err |-> FALSE, Segments |-> <<>>]],
               calls |-> <<>>, inCb |-> {}, returned |-> "no"]

NextProgress ==
    \/ \E i \in 0..(MaxCbChunks - 1) : TC_Acquire(i)
    \/ \E i \in 0..(MaxCbChunks - 1) : TC_TranscribeChunk(i)
    \/ \E i \in 0..(MaxCbChunks - 1) : TC_Lock(i)
    \/ \E i \in 0..(MaxCbChunks - 1) : TC_Record(i)
    \/ \E i \in 0..(MaxCbChunks - 1) : TC_Unlock(i)
    \/ TC_Return

SpecProgress == InitProgress /\ [][NextProgress]_vars

\* C32: the callback is never run by two goroutines at once; its k-th
\* invocation has completed = k and total = n; no chunk reports twice; and when
\* transcribeChunks returns it has been invoked exactly n times, once per
\* chunk, failed chunks included.
C32_CallbackOncePerChunk ==
    /\ Cardinality(tc.inCb) <= 1
    /\ \A k \in 1..Len(tc.calls) : tc.calls[k].completed = k /\ tc.calls[k].total = tc.n
    /\ \A j \in 1..Len(tc.calls), k \in 1..Len(tc.calls) :
          j # k => tc.calls[j].label # tc.calls[k].label
    /\ tc.returned # "no" =>
          /\ Len(tc.calls) = tc.n
          /\ {tc.calls[k].label : k \in 1..Len(tc.calls)} = {i + 1 : i \in CbIds}

\* a call of three chunks has returned; the chunks completed out of index
\* order and one of them failed
C32_Witness ==
    /\ tc.n = 3 /\ tc.returned = "err"
    /\ tc.calls[1].label = 3 /\ tc.calls[2].label = 1
    /\ tc.got[0].err /\ ~tc.got[1].err

\* C33: result slot i is filled only by chunk i: it holds the provider's
\* result for chunk i with ChunkID = i and every segment's Start and End
\* increased by exactly chunk i's start; a chunk that succeeded and finished
\* has its slot filled, a chunk that failed leaves its slot nil.
C33_SlotHoldsOwnResult ==
    \A i \in CbIds :
       /\ ~tc.results[i].isNil =>
             /\ tc.results[i].ChunkID = i
             /\ Len(tc.results[i].Segments) = Len(tc.raw[i])
             /\ \A k \in 1..Len(tc.raw[i]) :
                   /\ tc.results[i].Segments[k].Start = tc.raw[i][k].Start + ChunkStartOf(i)
                   /\ tc.results[i].Segments[k].End = tc.raw[i][k].End + ChunkStartOf(i)
       /\ tc.pc[i] \in {"callback", "done"} => (tc.results[i].isNil <=> tc.got[i].err)

\* three chunks with segments completed in reverse order of their indices
C33_Witness ==
    /\ tc.n = 3 /\ tc.returned = "ok"
    /\ \A i \in CbIds : tc.raw[i] # <<>>
    /\ tc.calls[1].label = 3 /\ tc.calls[2].label = 2 /\ tc.calls[3].label = 1

\* the valid chunks of the list passed to MergeChunks, in ChunkID order
SortedValidArgs == SelectSeq(SortedBy(ucall.arg, "ChunkID"), LAMBDA c : ~c.isNil /\ c.Text # <<>>)

\* the segment list the fold is to produce from the prior segments, the
\* previous chunk and the next chunk
ExpectedFold(prior, prev, next) ==
    LET ov == DetectOverlap(prev, next)
    IN  IF ov[2] - ov[1] > OverlapThreshold
        THEN SortedBy(SelectSeq(prior, LAMBDA seg : seg.End <= ov[1])
                      \o SelectSeq(next.Segments, LAMBDA seg : seg.Start >= ov[2]), "Start")
        ELSE prior \o next.Segments

\* C34: folding the next chunk into the result: when DetectOverlap yields an
\* overlap longer than the threshold, the merged segments are the prior
\* segments ending at or before overlapStart plus the next chunk's segments
\* starting at or after overlapEnd, sorted by start; otherwise the next
\* chunk's segments are appended unchanged after the prior ones.
C34_FoldFollowsOverlapRule ==
    (/\ ucall.op = "MergeChunks"
     /\ ~ucall.ret.panics
     /\ Len(SortedValidArgs) >= 2) =>
       LET c == SortedValidArgs
           two == ExpectedFold(c[1].Segments, c[1], c[2])
       IN  ucall.ret.result.Segments =
             IF Len(c) = 2 THEN two ELSE ExpectedFold(two, c[2], c[3])

\* a merge of three chunks with segments whose first fold removed an overlap
\* and kept a prior segment that ends exactly at overlapStart
C34_Witness ==
    /\ ucall.op = "MergeChunks" /\ ~ucall.ret.panics
    /\ Len(SortedValidArgs) = 3
    /\ LET ov == DetectOverlap(SortedValidArgs[1], SortedValidArgs[2])
       IN  /\ ov[2] - ov[1] > OverlapThreshold
           /\ \E k \in 1..Len(SortedValidArgs[1].Segments) :
                 SortedValidArgs[1].Segments[k].End = ov[1]
    /\ SortedValidArgs[3].Segments # <<>>
    /\ ucall.ret.result.Segments # <<>>

\* the instant t lies inside one of the segments
Covered(segs, t) == \E k \in 1..Len(segs) : segs[k].Start <= t /\ t < segs[k].End

\* C35: merging loses no part of the timeline: every instant covered by a
\* segment of a merged chunk is covered by a segment of the result.
C35_NoTimelineLost ==
    (/\ ucall.op = "MergeChunks"
     /\ ~ucall.ret.panics
     /\ Len(SortedValidArgs) >= 2) =>
       \A i \in 1..Len(SortedValidArgs) : \A t \in 0..14 :
          Covered(SortedValidArgs[i].Segments, t) => Covered(ucall.ret.result.Segments, t)

\* ------------- SpecCleanup: the chunk files of one Transcribe call, with failures

\* chunks of the plan at most
MaxPlanChunks == 3

\* a step of the call: tmp holds its position, the plan length n, the number
\* of chunks made, the indices of the chunk files on disk and how it returned
CallStep(pc, made, files, exit) ==
    /\ tmp' = [tmp EXCEPT !.pc = pc, !.made = made, !.files = files, !.exit = exit]
    /\ UNCHANGED notTemp

\* CleanupChunks(chunks): os.Remove of the TempFilePath of every chunk of the list
CleanupChunks(files, list) == files \ list

\* TranscribeWithProgress, deferred: CleanupChunks(chunks) unless PreserveAudio
DeferredCleanup(files) ==
    IF tmp.preserve THEN files ELSE CleanupChunks(files, 0..(tmp.n - 1))

\* ChunkAudio, one turn of the loop: CreateChunk runs ffmpeg on chunkPath.
\* ffmpeg fails before or after it has opened its output file; on an error
\* ChunkAudio cleans chunks[:i] and returns, and createChunks' caller returns
\* before its deferred cleanup is registered.
CU_CreateChunk ==
    /\ tmp.pc = "create"
    /\ tmp.made < tmp.n
    /\ \/ CallStep("create", tmp.made + 1, tmp.files \cup {tmp.made}, "")
       \/ \E partial \in BOOLEAN :
             CallStep("returned", tmp.made,
                      CleanupChunks(tmp.files \cup (IF partial THEN {tmp.made} ELSE {}),
                                    0..(tmp.made - 1)),
                      "failed to create chunks")

\* ChunkAudio returns the chunks; the cleanup is deferred
CU_ChunksCreated ==
    /\ tmp.pc = "create"
    /\ tmp.made = tmp.n
    /\ CallStep("transcribe", tmp.made, tmp.files, "")

\* transcribeChunks returns the results or the first error
CU_TranscribeChunks ==
    /\ tmp.pc = "transcribe"
    /\ \/ CallStep("merge", tmp.made, tmp.files, "")
       \/ CallStep("returned", tmp.made, DeferredCleanup(tmp.files), "chunk transcription failed")

\* MergeChunks returns the result or an error
CU_MergeChunks ==
    /\ tmp.pc = "merge"
    /\ \/ CallStep("save", tmp.made, tmp.files, "")
       \/ CallStep("returned", tmp.made, DeferredCleanup(tmp.files), "failed to merge chunks")

\* saveResult when OutputPath is set, and the return of the result
CU_SaveAndReturn ==
    /\ tmp.pc = "save"
    /\ \/ CallStep("returned", tmp.made, DeferredCleanup(tmp.files), "ok")
       \/ /\ tmp.output
          /\ CallStep("returned", tmp.made, DeferredCleanup(tmp.files), "failed to save result")

InitCleanup ==
    /\ InitTrackerTable /\ InitHarness
    /\ maxWorkers = 1 /\ optWorkers = 0 /\ InitNoBudget
    /\ numChunks = [p \in Paths |-> 1]
    /\ InitChunks /\ InitHistory /\ InitWatcher /\ InitWorkers /\ InitOut
    /\ exists = {} /\ markers = [p \in Paths |-> NoMarker]
    /\ ucall = NoCall
    /\ ufails = [f \in HistKeys |-> 0]
    /\ tc = NoChunksCall
    /\ \E n \in 1..MaxPlanChunks, preserve \in BOOLEAN, output \in BOOLEAN :
         tmp = [pc |-> "create", n |-> n, preserve |-> preserve, output |-> output,
                made |-> 0, files |-> {}, exit |-> ""]

NextCleanup ==
    \/ CU_CreateChunk
    \/ CU_ChunksCreated
    \/ CU_TranscribeChunks
    \/ CU_MergeChunks
    \/ CU_SaveAndReturn

SpecCleanup == InitCleanup /\ [][NextCleanup]_vars

\* C36: with PreserveAudio false no chunk file of the call is left when the
\* call has returned, whichever way it returned.
C36_NoChunkFileLeft ==
    (tmp.pc = "returned" /\ ~tmp.preserve) => tmp.files = {}

\* ------------- SpecMove: ProcessFile from Transcribe on, with MoveToDir

\* the input file has at most MaxBlocks blocks for io.Copy to write
MaxBlocks == 3

\* a step of ProcessFile: tmp holds its position, whether the original is
\* there, the blocks of the destination on disk (NoFile: no destination),
\* the blocks io.Copy has written in all, and whether Sync has returned nil
MoveStep(pc, src, dest, exit) ==
    /\ tmp' = [tmp EXCEPT !.pc = pc, !.src = src, !.dest = dest, !.exit = exit]
    /\ UNCHANGED notTemp

\* no destination file
NoDest == -1

\* A failed copy that leaves the destination as it is.
RemovePartial_Keep(dest) == dest

\* copyThenDelete on a copy or sync error: os.Remove(destPath)
RemovePartial(dest) == NoDest

\* Transcribe returns: on an error the failure is recorded and ProcessFile
\* returns; on success RecordProcessed, then moveFile when MoveToDir is set
MV_Transcribe ==
    /\ tmp.pc = "transcribe"
    /\ \/ MoveStep("returned", tmp.src, tmp.dest, "transcription failed")
       \/ /\ tmp' = [tmp EXCEPT !.pc = IF tmp.moveTo THEN "dest" ELSE "returned",
                                 !.ok = TRUE,
                                 !.exit = IF tmp.moveTo THEN "" ELSE "completed"]
          /\ UNCHANGED notTemp

\* moveFile: MkdirAll, then destPath is MoveToDir/<base>, or
\* MoveToDir/<name>_<timestamp><ext> when a file of that name is there
MV_DestPath ==
    /\ tmp.pc = "dest"
    /\ \/ MoveStep("returned", tmp.src, tmp.dest, "failed to create move-to directory")
       \/ /\ tmp' = [tmp EXCEPT !.pc = "rename",
                                 !.path = IF tmp.taken THEN "stamped" ELSE "base"]
          /\ UNCHANGED notTemp

\* moveFile: os.Rename moves the file, fails with EXDEV (copyThenDelete is
\* next), or fails otherwise
MV_Rename ==
    /\ tmp.pc = "rename"
    /\ \/ /\ tmp' = [tmp EXCEPT !.pc = "returned", !.src = FALSE, !.dest = tmp.size,
                                 !.renamed = TRUE, !.exit = "completed"]
          /\ UNCHANGED notTemp
       \/ MoveStep("open", tmp.src, tmp.dest, "")
       \/ MoveStep("returned", tmp.src, tmp.dest, "failed to move file")

\* copyThenDelete: os.Open(srcPath), os.Create(destPath)
MV_OpenCreate ==
    /\ tmp.pc = "open"
    /\ \/ MoveStep("returned", tmp.src, tmp.dest, "failed to open source file")
       \/ MoveStep("returned", tmp.src, tmp.dest, "failed to create destination file")
       \/ MoveStep("copy", tmp.src, 0, "")

\* copyThenDelete: io.Copy writes the next block, fails, or is through
MV_Copy ==
    /\ tmp.pc = "copy"
    /\ \/ /\ tmp.dest < tmp.size
          /\ tmp' = [tmp EXCEPT !.dest = @ + 1, !.written = @ + 1]
          /\ UNCHANGED notTemp
       \/ /\ tmp.dest < tmp.size
          /\ MoveStep("returned", tmp.src, RemovePartial(tmp.dest), "failed to copy file contents")
       \/ /\ tmp.dest = tmp.size
          /\ MoveStep("sync", tmp.src, tmp.dest, "")

\* copyThenDelete: dest.Sync()
MV_Sync ==
    /\ tmp.pc = "sync"
    /\ \/ MoveStep("returned", tmp.src, RemovePartial(tmp.dest), "failed to sync destination file")
       \/ /\ tmp' = [tmp EXCEPT !.pc = "delete", !.synced = TRUE]
          /\ UNCHANGED notTemp

\* copyThenDelete: Chmod and Close, then os.Remove(srcPath)
MV_Delete ==
    /\ tmp.pc = "delete"
    /\ \/ MoveStep("returned", FALSE, tmp.dest, "completed")
       \/ MoveStep("returned", tmp.src, tmp.dest, "failed to delete original file after copy")

InitMove ==
    /\ InitTrackerTable /\ InitHarness
    /\ maxWorkers = 1 /\ optWorkers = 0 /\ InitNoBudget
    /\ numChunks = [p \in Paths |-> 1]
    /\ InitChunks /\ InitHistory /\ InitWatcher /\ InitWorkers /\ InitOut
    /\ exists = {} /\ markers = [p \in Paths |-> NoMarker]
    /\ ucall = NoCall
    /\ ufails = [f \in HistKeys |-> 0]
    /\ tc = NoChunksCall
    /\ \E size \in 1..MaxBlocks, moveTo \in BOOLEAN, taken \in BOOLEAN :
         tmp = [pc |-> "transcribe", size |-> size, moveTo |-> moveTo, ok |-> FALSE,
                taken |-> taken, path |-> "",
                src |-> TRUE, dest |-> NoDest, written |-> 0, synced |-> FALSE,
                renamed |-> FALSE, exit |-> ""]

NextMove ==
    \/ MV_Transcribe
    \/ MV_DestPath
    \/ MV_Rename
    \/ MV_OpenCreate
    \/ MV_Copy
    \/ MV_Sync
    \/ MV_Delete

SpecMove == InitMove /\ [][NextMove]_vars

\* the messages of the three failures inside the copy
CopyFailures ==
    {"failed to create destination file", "failed to copy file contents",
     "failed to sync destination file"}

\* C37: the file is moved only after a successful run; the original is gone
\* only when the destination is complete (renamed, or written in full and
\* synced); when creating, copying or syncing the destination fails, no
\* partial destination is left and the original is still there.
C37_MoveKeepsOneCompleteCopy ==
    /\ tmp.pc \in {"dest", "rename", "open", "copy", "sync", "delete"} => tmp.ok /\ tmp.moveTo
    /\ tmp.dest # NoDest => tmp.ok
    /\ ~tmp.src => /\ tmp.ok
                   /\ tmp.dest = tmp.size
                   /\ tmp.renamed \/ tmp.synced
    /\ tmp.exit \in CopyFailures => tmp.dest = NoDest /\ tmp.src

\* the copy failed after it had written a part of the destination
C37_Witness ==
    /\ tmp.pc = "returned" /\ tmp.exit = "failed to copy file contents"
    /\ tmp.written >= 1 /\ tmp.written < tmp.size

\* ------------- SpecRecursive: what reaches queueFile, with and without Recursive

\* periodic scans of a run at most
MaxRescans == 2

\* WatchDir and one directory below it
WatchedTree == {"watch", "watch/sub"}

\* files that match the patterns: two in WatchDir, one in the subdirectory
TreeFiles == {<<"watch", "a.mp3">>, <<"watch", "c.mp3">>, <<"watch/sub", "b.mp3">>}

\* the directory of a file
DirOf(f) == f[1]

\* a step of the watcher: tmp holds config.Recursive, the files on disk,
\* the directories fsnotify watches, the events not handled yet and the
\* paths handed to the worker queue so far
TreeStep(present, evts, queued) ==
    /\ tmp' = [tmp EXCEPT !.present = present, !.events = evts, !.queued = queued]
    /\ UNCHANGED notTemp

\* addWatchDir: WatchDir, and its subdirectories when Recursive
addWatchDir == IF tmp.recursive THEN WatchedTree ELSE {"watch"}

\* processExistingFiles: the walk returns SkipDir on a directory other than
\* WatchDir unless Recursive
processExistingFiles ==
    {f \in tmp.present : tmp.recursive \/ DirOf(f) = "watch"}

\* periodicScan: the walk passes every directory and hands every
\* processable file to queueFile
periodicScan == tmp.present

\* Start: addWatchDir, then processExistingFiles when ProcessExisting
RC_Start ==
    /\ ~tmp.started
    /\ tmp' = [tmp EXCEPT !.started = TRUE, !.watched = addWatchDir,
                          !.queued = @ \cup (IF tmp.existing THEN processExistingFiles ELSE {})]
    /\ UNCHANGED notTemp

\* a file is dropped into the tree; fsnotify reports it when its directory
\* is watched
RC_Create(f) ==
    /\ f \notin tmp.present
    /\ TreeStep(tmp.present \cup {f},
                tmp.events \cup (IF DirOf(f) \in tmp.watched THEN {f} ELSE {}),
                tmp.queued)

\* watchLoop: an event arrives; handleFileEvent queues the file
RC_HandleFileEvent(f) ==
    /\ tmp.started
    /\ f \in tmp.events
    /\ TreeStep(tmp.present, tmp.events \ {f}, tmp.queued \cup {f})

\* watchLoop: ticker.C fires; periodicScan
RC_PeriodicScan ==
    /\ tmp.started
    /\ tmp.scans < MaxRescans
    /\ tmp' = [tmp EXCEPT !.scans = @ + 1, !.queued = @ \cup periodicScan]
    /\ UNCHANGED notTemp

InitRecursive ==
    /\ InitTrackerTable /\ InitHarness
    /\ maxWorkers = 1 /\ optWorkers = 0 /\ InitNoBudget
    /\ numChunks = [p \in Paths |-> 1]
    /\ InitChunks /\ InitHistory /\ InitWatcher /\ InitWorkers /\ InitOut
    /\ exists = {} /\ markers = [p \in Paths |-> NoMarker]
    /\ ucall = NoCall
    /\ ufails = [f \in HistKeys |-> 0]
    /\ tc = NoChunksCall
    /\ \E recursive \in BOOLEAN, existing \in BOOLEAN, present \in SUBSET TreeFiles :
         tmp = [recursive |-> recursive, existing |-> existing, present |-> present,
                started |-> FALSE, watched |-> {}, events |-> {}, queued |-> {}, scans |-> 0]

NextRecursive ==
    \/ RC_Start
    \/ \E f \in TreeFiles : RC_Create(f)
    \/ \E f \in TreeFiles : RC_HandleFileEvent(f)
    \/ RC_PeriodicScan

SpecRecursive == InitRecursive /\ [][NextRecursive]_vars

\* C38: with Recursive false no file of a subdirectory of WatchDir is ever
\* handed to the worker queue: not by the startup scan, not by a file event,
\* not by a periodic rescan.
C38_SubdirNeverQueued ==
    ~tmp.recursive => \A f \in tmp.queued : DirOf(f) = "watch"

\* DefaultWatchConfig: RetryFailed false; no code of the watcher reads the field
RetryFailed == FALSE

\* C39: with RetryFailed false a file whose fingerprint has a FailedRecord
\* is not transcribed again: no worker starts a transcription of a
\* fingerprint that has a failure on record.
C39_FailedNotRetried ==
    [][~RetryFailed =>
         \A w \in WorkerIds :
            (~Transcribing(w) /\ Transcribing(w)') => histFailed[whash'[w]] = -1]_vars

\* the reference plan: the step, the number of chunks and the chunks
RefStep(C, O) == IF C - O <= 0 THEN C \div 2 ELSE C - O

\* the reference plan has a last chunk: some i with i * step + C >= D
RefExists(D, C, O) == D <= C \/ \E i \in 0..D : i * RefStep(C, O) + C >= D

RefPlan(D, C, O) ==
    IF D <= C
    THEN <<[Index |-> 0, Start |-> 0, End |-> D, Duration |-> D]>>
    ELSE LET step == RefStep(C, O)
             last == CHOOSE i \in 0..D :
                        /\ i * step + C >= D
                        /\ \A j \in 0..(i - 1) : j * step + C < D
         IN  [k \in 1..(last + 1) |->
                LET start == (k - 1) * step
                    end == IF start + C < D THEN start + C ELSE D
                IN  [Index |-> k - 1, Start |-> start, End |-> end, Duration |-> end - start]]

\* C40: for every input with C > 0, CalculateChunks(D, C, O) returns the
\* reference plan: the single chunk [0, D) when D <= C; otherwise, with
\* step = C - O (C / 2 when C - O <= 0), the chunks
\* [i * step, min(i * step + C, D)) for i = 0..n-1, where n-1 is the least i
\* with i * step + C >= D.
C40_PlanEqualsReference ==
    (ucall.op = "CalculateChunks" /\ ucall.arg[2] > 0) =>
       /\ ucall.ret.returns
       /\ RefExists(ucall.arg[1], ucall.arg[2], ucall.arg[3])
       /\ ucall.ret.chunks = RefPlan(ucall.arg[1], ucall.arg[2], ucall.arg[3])

====
